---------------------------- MODULE Spec2Model ----------------------------
(***************************************************************************)
(* Model of the onedriver launcher's C library: the systemd unit-name      *)
(* codec (src/launcher/systemd.c) and the mount registry                   *)
(* (src/launcher/onedriver.c).                                             *)
(*                                                                         *)
(* A C string is a sequence of bytes 1..255; the terminating NUL is        *)
(* implicit.  A buffer that the code fills byte by byte may hold a 0 in    *)
(* the middle: its value as a C string is CStr(buf), the bytes before the  *)
(* first 0.  Memory allocation is assumed to succeed.                      *)
(***************************************************************************)
EXTENDS Integers, Sequences, FiniteSets, TLC

VARIABLES
    pc,         \* position of the caller: which call has returned
    path,       \* argument of systemd_path_escape / systemd_escape
    path2,      \* a second path (two mountpoints compared)
    instance,   \* a unit instance name (result of escaping, input of unescaping)
    instance2,  \* instance name of path2
    unescaped,  \* result of systemd_unescape
    decoded,    \* outcome of systemd_path_unescape
    reescaped,  \* systemd_path_escape applied to the decoded path
    template,   \* argument of systemd_template_unit
    unit,       \* outcome of systemd_template_unit
    untemplated, \* outcome of systemd_untemplate_unit
    disk,       \* the file system: path -> node (type, access, directory entries)
    cache,      \* the cache root ~/.cache/onedriver: whether it exists, and its entries
    mountpoint, \* argument of fs_mountpoint_is_valid
    valid,      \* result of fs_mountpoint_is_valid
    mounts,     \* outcome of fs_known_mounts
    fault,      \* how the session bus treats the next controller call
    units,      \* the manager's units: unit name -> loaded, ActiveState, job, file state
    ctl,        \* the last controller call: argument, return value, requests issued
    poll,       \* fs_poll_until_avail: its arguments, loop counter and position
    sentinelAt, \* when the service created the sentinel: polls and sleeps made by then
    home,       \* the home directory, escape_home's result, unescape_home's outcome
    ui          \* the launcher's window: its rows, the last handler run and its requests

codecVars == <<path, path2, instance, instance2, unescaped, decoded, reescaped>>
tmplVars == <<template, unit, untemplated>>
fsVars == <<disk, cache, mountpoint, valid, mounts>>
busVars == <<fault, units, ctl>>
launcherVars == <<busVars, poll, sentinelAt, home, ui>>
vars == <<pc, codecVars, tmplVars, fsVars, launcherVars>>

---------------------------------------------------------------------------
(* Bounds of the model *)

MaxPathLen == 4
MaxPairLen == 4
MaxInstLen == 4
MaxTmplLen == 3
MaxTimeout == 2

---------------------------------------------------------------------------
(* Bytes the code tests for *)

SLASH == 47
DASH == 45
BACKSLASH == 92
DOT == 46
LOWER_X == 120
AT_SIGN == 64
EINVAL == 22

Chars(lo, hi) == lo..hi
DIGITS == Chars(48, 57)
LOWERCASE_LETTERS == Chars(97, 122)
UPPERCASE_LETTERS == Chars(65, 90)
LETTERS == LOWERCASE_LETTERS \cup UPPERCASE_LETTERS
\* ":-_.\\"
VALID_CHARS == DIGITS \cup LETTERS \cup {58, DASH, 95, DOT, BACKSLASH}

\* strlen / the value of a buffer read as a C string
RECURSIVE CStrFrom(_, _)
CStrFrom(buf, i) ==
    IF i > Len(buf) \/ buf[i] = 0 THEN SubSeq(buf, 1, i - 1)
    ELSE CStrFrom(buf, i + 1)
CStr(buf) == CStrFrom(buf, 1)
strlen(buf) == Len(CStr(buf))

\* s[i] with the terminating NUL at Len(s) + 1
At(s, i) == IF i <= Len(s) THEN s[i] ELSE 0

\* A pointer result of a function returning char *
NULL == [null |-> TRUE, buf |-> <<>>]
Ptr(b) == [null |-> FALSE, buf |-> b]

\* Outcome of a function returning int and writing *ret.  mem is "ok" when
\* every write stayed inside its allocation, "corrupted" when the build let
\* a write past the end of an allocation damage the heap, and "segv" when
\* the call dereferenced a null pointer.
Outcome(rc, ret, mem) == [rc |-> rc, ret |-> ret, mem |-> mem]

\* Writing `written` bytes into an allocation of `alloc` bytes: a write past
\* the end is undefined behaviour and may or may not damage the heap.
HeapWrite(alloc, written) ==
    IF written <= alloc THEN {"ok"} ELSE {"ok", "corrupted"}

---------------------------------------------------------------------------
(* systemd.c: hex digits *)

hexTable == <<48, 49, 50, 51, 52, 53, 54, 55, 56, 57, 97, 98, 99, 100, 101, 102>>

\* a table of uppercase digits in place of the lowercase one
systemd_hexchar_upper(x) ==
    <<48, 49, 50, 51, 52, 53, 54, 55, 56, 57, 65, 66, 67, 68, 69, 70>>[(x % 16) + 1]

\* table[x & 15]
systemd_hexchar(x) == hexTable[(x % 16) + 1]

systemd_unhexchar(c) ==
    IF c >= 48 /\ c <= 57 THEN c - 48
    ELSE IF c >= 97 /\ c <= 102 THEN c - 97 + 10
    ELSE IF c >= 65 /\ c <= 70 THEN c - 65 + 10
    ELSE -EINVAL

\* a byte held in a (signed) char
SignedChar(b) == IF b >= 128 THEN b - 256 ELSE b

\* c >> 4 on a signed char: arithmetic shift
ShiftRight4(c) == IF c >= 0 THEN c \div 16 ELSE -(((-c) + 15) \div 16)

escape_char(c) ==
    <<BACKSLASH, LOWER_X, systemd_hexchar(ShiftRight4(SignedChar(c))),
      systemd_hexchar(SignedChar(c))>>

---------------------------------------------------------------------------
(* systemd.c: systemd_escape *)

\* the loop with '-' copied like any other character of VALID_CHARS
escape_step_keeps_dash(c) ==
    IF c = SLASH THEN <<DASH>>
    ELSE IF c = BACKSLASH \/ c \notin VALID_CHARS THEN escape_char(c)
    ELSE <<c>>

\* one iteration of the for loop: what is appended to r for byte c
escape_step(c) ==
    IF c = SLASH THEN <<DASH>>
    ELSE IF c = DASH \/ c = BACKSLASH \/ c \notin VALID_CHARS THEN escape_char(c)
    ELSE <<c>>

RECURSIVE escape_loop(_, _, _)
escape_loop(str, s, r) ==
    IF s > Len(str) THEN r
    ELSE escape_loop(str, s + 1, r \o escape_step(str[s]))

\* the leading '.' is escaped before the loop
escape_leading_dot(str) ==
    IF At(str, 1) = DOT THEN escape_loop(str, 2, escape_char(DOT))
    ELSE escape_loop(str, 1, <<>>)

systemd_escape(str) == escape_leading_dot(str)

---------------------------------------------------------------------------
(* systemd.c: systemd_unescape *)

\* ((uint8_t)a << 4U) | (uint8_t)b, with a and b in 0..15: the bits are disjoint
unescape_byte(a, b) == (a * 16) + b

RECURSIVE unescape_loop(_, _, _)
unescape_loop(f, i, t) ==
    IF i > Len(f) THEN Ptr(t)
    ELSE IF f[i] = DASH THEN unescape_loop(f, i + 1, Append(t, SLASH))
    ELSE IF f[i] = BACKSLASH THEN
        IF At(f, i + 1) # LOWER_X THEN NULL
        ELSE LET a == systemd_unhexchar(At(f, i + 2)) IN
             IF a < 0 THEN NULL
             ELSE LET b == systemd_unhexchar(At(f, i + 3)) IN
                  IF b < 0 THEN NULL
                  ELSE unescape_loop(f, i + 4, Append(t, unescape_byte(a, b)))
    ELSE unescape_loop(f, i + 1, Append(t, f[i]))

systemd_unescape(f) == unescape_loop(f, 1, <<>>)

---------------------------------------------------------------------------
(* systemd.c: systemd_path_escape, systemd_path_unescape *)

\* the trailing slash left in place
strip_trailing_slash_kept(p) == p

strip_trailing_slash(p) ==
    IF p[Len(p)] = SLASH THEN SubSeq(p, 1, Len(p) - 1) ELSE p

strip_leading_slash(p) ==
    IF At(p, 1) = SLASH THEN SubSeq(p, 2, Len(p)) ELSE p

systemd_path_escape(p) ==
    IF Len(p) = 0 \/ p = <<SLASH>> THEN Outcome(0, <<DASH>>, "ok")
    ELSE Outcome(0, systemd_escape(strip_leading_slash(strip_trailing_slash(p))), "ok")

\* the set of outcomes: *ret is malloc(strlen(unescaped) + 1), and '/', the
\* unescaped text and its terminator are written into it
systemd_path_unescape(inst) ==
    LET u == systemd_unescape(inst) IN
    IF u.null THEN {Outcome(-1, <<>>, "ok")}
    ELSE {Outcome(0, <<SLASH>> \o CStr(u.buf), m) :
            m \in HeapWrite(strlen(u.buf) + 1, 1 + strlen(u.buf) + 1)}

---------------------------------------------------------------------------
(* systemd.c: systemd_template_unit, systemd_untemplate_unit *)

ENOMEM == 12

\* 1-based index of the first / last occurrence of c in s, 0 for a null result
RECURSIVE strchr_from(_, _, _)
strchr_from(s, c, i) ==
    IF i > Len(s) THEN 0
    ELSE IF s[i] = c THEN i
    ELSE strchr_from(s, c, i + 1)
strchr(s, c) == strchr_from(s, c, 1)

\* the first occurrence taken for the last
strrchr_first(s, c) == strchr(s, c)

RECURSIVE strrchr_from(_, _, _)
strrchr_from(s, c, i) ==
    IF i < 1 THEN 0
    ELSE IF s[i] = c THEN i
    ELSE strrchr_from(s, c, i - 1)
strrchr(s, c) == strrchr_from(s, c, Len(s))

\* the set of outcomes.  With no '.', strlen(dot_pos) reads through a null
\* pointer.  With no '@', at_pos - template is computed from a null pointer:
\* the size handed to malloc is then out of range and the call returns
\* -ENOMEM, or the build faults.
systemd_template_unit(tmpl, inst) ==
    LET at_pos == strchr(tmpl, AT_SIGN)
        dot_pos == strrchr(tmpl, DOT)
        a == at_pos - 1
        b == Len(inst)
        tail == SubSeq(tmpl, dot_pos, Len(tmpl))
    IN  IF dot_pos = 0 THEN {Outcome(0, <<>>, "segv")}
        ELSE IF at_pos = 0 THEN {Outcome(-ENOMEM, <<>>, "ok"), Outcome(0, <<>>, "segv")}
        ELSE {Outcome(0, SubSeq(tmpl, 1, a + 1) \o inst \o tail, m) :
                m \in HeapWrite(a + 1 + b + Len(tail) + 1, a + 1 + b + Len(tail) + 1)}

\* the scan of systemd_untemplate_unit: <<start, end>> as 0-based offsets
RECURSIVE untemplate_scan(_, _, _, _)
untemplate_scan(unit_name, i, start, end) ==
    IF i >= Len(unit_name) THEN <<start, end>>
    ELSE IF unit_name[i + 1] = AT_SIGN THEN untemplate_scan(unit_name, i + 1, i + 1, end)
    ELSE IF unit_name[i + 1] = DOT THEN untemplate_scan(unit_name, i + 1, start, i)
    ELSE untemplate_scan(unit_name, i + 1, start, end)

\* the set of outcomes: instance is malloc(len), len bytes are copied into
\* it and the terminator is written at instance[len].  A negative len makes
\* the allocation fail and the copy fault.
systemd_untemplate_unit(unit_name) ==
    LET se == untemplate_scan(unit_name, 0, -1, Len(unit_name))
        start == se[1]
        end == se[2]
        len == end - start
    IN  IF start = -1 THEN {Outcome(-1, <<>>, "ok")}
        ELSE IF len < 0 THEN {Outcome(0, <<>>, "segv")}
        ELSE {Outcome(0, SubSeq(unit_name, start + 1, end), m) :
                m \in HeapWrite(len, len + 1)}

---------------------------------------------------------------------------
(* The file system the registry reads *)

\* st_mode file types of <sys/stat.h>, octal 0040000, 0100000, 0140000; 0 for no file
S_IFDIR == 16384
S_IFREG == 32768
S_IFSOCK == 49152
FileTypes == {S_IFDIR, S_IFREG, S_IFSOCK}

\* d_type of <dirent.h>; readdir reports IFTODT(mode) = mode >> 12
DT_DIR == 4
IFTODT(mode) == mode \div 4096

RECURSIVE BitAnd(_, _)
BitAnd(a, b) ==
    IF a = 0 \/ b = 0 THEN 0
    ELSE ((a % 2) * (b % 2)) + (2 * BitAnd(a \div 2, b \div 2))

Node(type, readable, entries) == [type |-> type, readable |-> readable, entries |-> entries]
NoNode == Node(0, FALSE, {})

\* ".", ".."
DotEntries == {<<DOT>>, <<DOT, DOT>>}

\* every order in which readdir may return the members of S
RECURSIVE Listings(_)
Listings(S) ==
    IF S = {} THEN {<<>>}
    ELSE UNION {{<<n>> \o l : l \in Listings(S \ {n})} : n \in S}

\* opendir: null unless the path is a directory the process may read,
\* otherwise the entries in the order readdir will return them
opendir(p, listing) ==
    IF p \in DOMAIN disk /\ disk[p].type = S_IFDIR /\ disk[p].readable
    THEN Ptr(listing) ELSE NULL

\* the loop with every name that starts with '.' skipped
RECURSIVE valid_loop_skips_hidden(_, _)
valid_loop_skips_hidden(listing, i) ==
    IF i > Len(listing) THEN TRUE
    ELSE IF listing[i][1] = DOT THEN valid_loop_skips_hidden(listing, i + 1)
    ELSE FALSE

\* the readdir loop of fs_mountpoint_is_valid
RECURSIVE valid_loop(_, _)
valid_loop(listing, i) ==
    IF i > Len(listing) THEN TRUE
    ELSE IF listing[i] = <<DOT>> \/ listing[i] = <<DOT, DOT>> THEN valid_loop(listing, i + 1)
    ELSE FALSE

\* mp is the pointer argument; listing is the order in which readdir returns
\* the entries of the directory
fs_mountpoint_is_valid(mp, listing) ==
    IF mp.null \/ strlen(mp.buf) = 0 THEN FALSE
    ELSE LET dir == opendir(mp.buf, listing) IN
         IF dir.null THEN FALSE
         ELSE valid_loop(dir.buf, 1)

---------------------------------------------------------------------------
(* onedriver.c: fs_known_mounts *)

\* initial capacity of the result array
INITIAL_SIZE == 10

\* stat(): the st_mode file type of p, 0 when stat fails
stat_mode(p) == IF p \in DOMAIN disk THEN disk[p].type ELSE 0

\* the readdir loop; entries is the cache root's name -> st_mode map, listing
\* the order of its names, st the loop's state: r the array filled so far,
\* size its capacity, overrun whether a write fell outside it, segv whether
\* a null pointer was read
RECURSIVE known_mounts_loop(_, _, _, _)
known_mounts_loop(entries, listing, i, st) ==
    IF i > Len(listing) \/ st.segv THEN st
    ELSE LET d_name == listing[i]
             d_type == IF d_name \in DotEntries THEN DT_DIR ELSE IFTODT(entries[d_name])
         IN  IF BitAnd(d_type, DT_DIR) # 0 /\ d_name[1] # DOT
             THEN LET upath == systemd_unescape(d_name) IN
                  IF upath.null
                  THEN \* strlen(path) on the null result
                       known_mounts_loop(entries, listing, i + 1, [st EXCEPT !.segv = TRUE])
                  ELSE LET fullpath == <<SLASH>> \o CStr(upath.buf) IN
                       IF stat_mode(fullpath) # 0 /\ BitAnd(stat_mode(fullpath), S_IFDIR) # 0
                       THEN LET idx == Len(st.r) + 1
                                grown == IF idx > st.size THEN st.size * 2 ELSE st.size
                            IN  known_mounts_loop(entries, listing, i + 1,
                                    [st EXCEPT !.r = Append(@, fullpath),
                                               !.overrun = @ \/ (idx - 1 >= st.size),
                                               !.size = grown])
                       ELSE known_mounts_loop(entries, listing, i + 1, st)
             ELSE known_mounts_loop(entries, listing, i + 1, st)

\* the set of outcomes for one readdir order of the cache root
fs_known_mounts(listing) ==
    IF ~cache.exists THEN {Outcome(0, <<>>, "ok")}
    ELSE LET st == known_mounts_loop(cache.entries, listing, 1,
                       [r |-> <<>>, size |-> INITIAL_SIZE, overrun |-> FALSE, segv |-> FALSE])
         IN  IF st.segv THEN {Outcome(0, <<>>, "segv")}
             ELSE {Outcome(0, st.r, m) :
                     m \in IF st.overrun \/ Len(st.r) >= st.size
                           THEN {"ok", "corrupted"} ELSE {"ok"}}

---------------------------------------------------------------------------
(* Inputs *)

Strings(S, n) == UNION {[1..k -> S] : k \in 0..n}

\* '/', '-', '.', '\', '@', 'a' and a byte >= 0x80
PathChars == {SLASH, DASH, DOT, BACKSLASH, AT_SIGN, 97, 233}

\* the paths of main_test.c: "/home/test/yesYes", "home/test/yesYes", "words@ test"
TestPaths ==
    { <<47, 104, 111, 109, 101, 47, 116, 101, 115, 116, 47, 121, 101, 115, 89, 101, 115>>,
      <<104, 111, 109, 101, 47, 116, 101, 115, 116, 47, 121, 101, 115, 89, 101, 115>>,
      <<119, 111, 114, 100, 115, 64, 32, 116, 101, 115, 116>> }

PathInputs == Strings(PathChars, MaxPathLen) \cup TestPaths

NoOutcome == Outcome(0, <<>>, "none")

codecIdle ==
    /\ path = <<>> /\ path2 = <<>> /\ instance = <<>> /\ instance2 = <<>>
    /\ unescaped = NULL /\ decoded = NoOutcome /\ reescaped = NoOutcome
tmplIdle == template = <<>> /\ unit = NoOutcome /\ untemplated = NoOutcome
fsIdle ==
    /\ disk = <<>> /\ cache = [exists |-> FALSE, entries |-> <<>>]
    /\ mountpoint = NULL /\ valid = FALSE /\ mounts = NoOutcome

\* The units the launcher controls: instances of onedriver@.service
UnitNames == {"onedriver@mount.service", "onedriver@other.service"}

\* A unit as the manager holds it: known to GetUnit or not, its ActiveState,
\* the job queued for it, and its unit-file state
Unit(loaded, active, job, file) ==
    [loaded |-> loaded, ActiveState |-> active, job |-> job, UnitFileState |-> file]
\* A controller call: its arguments, the unit as it was when the call was made,
\* whether the process survived the call, what it returned, the requests it
\* sent, and the failure it met
Call(unit_name, arg, was, proc, r, calls, failure) ==
    [unit_name |-> unit_name, arg |-> arg, was |-> was, proc |-> proc, r |-> r,
     calls |-> calls, failure |-> failure]
NoUnit == Unit(FALSE, "inactive", "none", "disabled")
NoCall == Call("", FALSE, NoUnit, "running", FALSE, <<>>, "none")

busIdle ==
    /\ fault = "none"
    /\ units = [u \in UnitNames |-> Unit(FALSE, "inactive", "none", "disabled")]
    /\ ctl = NoCall
\* fs_poll_until_avail not called: no poll made, no sleep taken
NoPoll ==
    [mountpoint |-> <<>>, arg |-> 0, timeout |-> 0, i |-> 0, found |-> FALSE,
     polls |-> 0, sleeps |-> 0, at |-> "idle"]

\* the service has not created the sentinel
NotYet == [polls |-> -1, sleeps |-> -1]

\* no home-directory abbreviation made
NoHome == [homedir |-> <<>>, replaced |-> <<>>, new_path |-> NoOutcome]

\* a row of the window's list: the mountpoint and the unit name its buttons hold
Row(mount, unit_name) == [mount |-> mount, unit_name |-> unit_name]
NoRow == Row(<<>>, <<>>)

\* the window before activate: no row, no handler run.  Of the last handler
\* it keeps the row, the dialog's response, the unit and the cache
\* subdirectory as they were when it began, the requests it issued, the
\* return codes of its codec calls and the state of the heap
NoUi ==
    [rows |-> {}, proc |-> "running", response |-> "none", row |-> NoRow,
     was |-> [unit |-> NoUnit, dir |-> NoNode],
     requests |-> <<>>, rcs |-> <<>>, mem |-> "ok"]

launcherIdle ==
    busIdle /\ poll = NoPoll /\ sentinelAt = NotYet /\ home = NoHome /\ ui = NoUi

---------------------------------------------------------------------------
(* The codec applied to one path: escape, path_escape, path_unescape of the
   result, and path_escape of what came back *)

InitCodec ==
    /\ launcherIdle
    /\ pc = "start"
    /\ path \in PathInputs
    /\ path2 = <<>> /\ instance = <<>> /\ instance2 = <<>>
    /\ unescaped = NULL /\ decoded = NoOutcome /\ reescaped = NoOutcome
    /\ tmplIdle
    /\ fsIdle

Escape ==
    /\ pc = "start"
    /\ instance' = systemd_escape(path)
    /\ pc' = "escape"
    /\ UNCHANGED <<path, path2, instance2, unescaped, decoded, reescaped, tmplVars, fsVars, launcherVars>>

PathEscape ==
    /\ pc = "start"
    /\ instance' = systemd_path_escape(path).ret
    /\ pc' = "path_escape"
    /\ UNCHANGED <<path, path2, instance2, unescaped, decoded, reescaped, tmplVars, fsVars, launcherVars>>

PathUnescape ==
    /\ pc = "path_escape"
    /\ decoded' \in systemd_path_unescape(instance)
    /\ pc' = "path_unescape"
    /\ UNCHANGED <<path, path2, instance, instance2, unescaped, reescaped, tmplVars, fsVars, launcherVars>>

PathReescape ==
    /\ pc = "path_unescape"
    /\ decoded.rc = 0 /\ decoded.mem = "ok"
    /\ reescaped' = systemd_path_escape(decoded.ret)
    /\ pc' = "path_reescape"
    /\ UNCHANGED <<path, path2, instance, instance2, unescaped, decoded, tmplVars, fsVars, launcherVars>>

NextCodec == Escape \/ PathEscape \/ PathUnescape \/ PathReescape

SpecCodec == InitCodec /\ [][NextCodec]_vars

---------------------------------------------------------------------------
(* Claims about the codec applied to one path *)

\* an absolute path with no trailing '/' (the root excepted) and no "//"
IsNormalized(p) ==
    /\ Len(p) >= 1
    /\ p[1] = SLASH
    /\ Len(p) = 1 \/ p[Len(p)] # SLASH
    /\ \A i \in 1..(Len(p) - 1) : ~(p[i] = SLASH /\ p[i + 1] = SLASH)

\* C1: round trip.  For every normalized absolute path p (the root "/"
\* included), systemd_path_unescape(systemd_path_escape(p)) succeeds and
\* returns exactly p; and for every instance name n in the image of
\* systemd_path_escape, systemd_path_escape(systemd_path_unescape(n)) = n.
C1_RoundTrip ==
    /\ (pc = "path_unescape" /\ IsNormalized(path)) =>
           (decoded.rc = 0 /\ decoded.mem = "ok" /\ decoded.ret = path)
    /\ (pc = "path_reescape") => (reescaped.rc = 0 /\ reescaped.ret = instance)

\* what is left of C1 away from the root and with the heap intact: every
\* other normalized path comes back unchanged, and its name is reproduced
C1_ExceptRootWhenHeapIntact ==
    /\ (pc = "path_unescape" /\ IsNormalized(path) /\ path # <<SLASH>>
          /\ decoded.mem = "ok") =>
           (decoded.rc = 0 /\ decoded.ret = path)
    /\ (pc = "path_reescape" /\ IsNormalized(path) /\ path # <<SLASH>>) =>
           (reescaped.ret = instance)

\* the character map as the claim states it
LegalPassThrough == DIGITS \cup LETTERS \cup {58, 95, DOT}
LowerHex(n) == IF n < 10 THEN 48 + n ELSE 87 + n
ClaimedEscapeOf(c) == <<BACKSLASH, LOWER_X, LowerHex(c \div 16), LowerHex(c % 16)>>
ClaimedCharMap(str, i) ==
    IF str[i] = SLASH THEN <<DASH>>
    ELSE IF str[i] = DASH \/ str[i] = BACKSLASH \/ str[i] \notin LegalPassThrough
            \/ (str[i] = DOT /\ i = 1)
         THEN ClaimedEscapeOf(str[i])
    ELSE <<str[i]>>
RECURSIVE ClaimedEscape(_, _)
ClaimedEscape(str, i) ==
    IF i > Len(str) THEN <<>> ELSE ClaimedCharMap(str, i) \o ClaimedEscape(str, i + 1)

\* n is made of legal characters and 4-character escapes "\xhh", hh lowercase hex
LowerHexDigits == Chars(48, 57) \cup Chars(97, 102)
RECURSIVE OnlyLegalAndEscapes(_, _)
OnlyLegalAndEscapes(n, i) ==
    IF i > Len(n) THEN TRUE
    ELSE IF n[i] = BACKSLASH
         THEN /\ i + 3 <= Len(n)
              /\ n[i + 1] = LOWER_X
              /\ n[i + 2] \in LowerHexDigits
              /\ n[i + 3] \in LowerHexDigits
              /\ OnlyLegalAndEscapes(n, i + 4)
    ELSE n[i] \in (LegalPassThrough \cup {DASH}) /\ OnlyLegalAndEscapes(n, i + 1)

\* C3: systemd_escape is the character-wise map, left to right: '/' becomes
\* '-'; '-', '\' and every byte outside [A-Za-z0-9:_.] become "\xHH" in
\* lowercase hex; a '.' in first position is escaped too; every other
\* character is copied.  The output holds only legal characters and
\* 4-character escapes, and "home/test/yesYes" gives "home-test-yesYes",
\* "words@ test" gives "words\x40\x20test".
C3_EscapeCharMap ==
    (pc = "escape") =>
        /\ instance = ClaimedEscape(path, 1)
        /\ OnlyLegalAndEscapes(instance, 1)
        /\ (path = <<104, 111, 109, 101, 47, 116, 101, 115, 116, 47, 121, 101, 115, 89, 101, 115>>)
             => (instance = <<104, 111, 109, 101, 45, 116, 101, 115, 116, 45, 121, 101, 115, 89, 101, 115>>)
        /\ (path = <<119, 111, 114, 100, 115, 64, 32, 116, 101, 115, 116>>)
             => (instance = <<119, 111, 114, 100, 115, 92, 120, 52, 48, 92, 120, 50, 48, 116, 101, 115, 116>>)

\* a path in which an escape, a '/', a leading '.' and a copied character all occur
C3_Witness ==
    /\ pc = "escape"
    /\ Len(path) = 4
    /\ path[1] = DOT /\ path[2] = SLASH /\ path[3] = 233 /\ path[4] = 97
    /\ Len(instance) = 10

\* the path with one trailing and then one leading '/' removed, as the claim states it
ClaimedStrip(p) ==
    LET q == IF p[Len(p)] = SLASH THEN SubSeq(p, 1, Len(p) - 1) ELSE p
    IN  IF Len(q) > 0 /\ q[1] = SLASH THEN SubSeq(q, 2, Len(q)) ELSE q

BeginsOrEndsWithDash(n) == Len(n) > 0 /\ (n[1] = DASH \/ n[Len(n)] = DASH)

\* the path begins or ends with two '/'
DoubledSlashAtAnEnd(p) ==
    /\ Len(p) >= 2
    /\ (p[1] = SLASH /\ p[2] = SLASH) \/ (p[Len(p)] = SLASH /\ p[Len(p) - 1] = SLASH)

\* C4 as stated: the empty path and "/" encode to "-"; for every other path
\* exactly one trailing '/' and then exactly one leading '/' are removed
\* before escaping, and the instance name never begins or ends with '-'.
C4_Original ==
    (pc = "path_escape") =>
        IF path = <<>> \/ path = <<SLASH>> THEN instance = <<DASH>>
        ELSE /\ instance = systemd_escape(ClaimedStrip(path))
             /\ ~BeginsOrEndsWithDash(instance)

\* C4 amended: as C4, but the instance name is free of a leading and a
\* trailing '-' only for paths that do not begin or end with two '/'.
C4_Normalization ==
    (pc = "path_escape") =>
        IF path = <<>> \/ path = <<SLASH>> THEN instance = <<DASH>>
        ELSE /\ instance = systemd_escape(ClaimedStrip(path))
             /\ ~DoubledSlashAtAnEnd(path) => ~BeginsOrEndsWithDash(instance)

\* a path with a slash at both ends was encoded without them
C4_Witness ==
    /\ pc = "path_escape"
    /\ path = <<SLASH, 97, DASH, SLASH>>
    /\ instance = <<97, BACKSLASH, LOWER_X, 50, 100>>

---------------------------------------------------------------------------
(* systemd_unescape applied to an arbitrary instance name *)

\* '-', '\', 'x', '0', '4', 'A' and 'g'
InstChars == {DASH, BACKSLASH, LOWER_X, 48, 52, 65, 103}

\* "words\x40\x20test" of main_test.c, and a name with an invalid escape "\xZZ"
TestInstances ==
    { <<119, 111, 114, 100, 115, 92, 120, 52, 48, 92, 120, 50, 48, 116, 101, 115, 116>>,
      <<97, 92, 120, 90, 90, 98>> }

InstanceInputs == Strings(InstChars, MaxInstLen) \cup TestInstances

InitUnescape ==
    /\ launcherIdle
    /\ pc = "start"
    /\ instance \in InstanceInputs
    /\ path = <<>> /\ path2 = <<>> /\ instance2 = <<>>
    /\ unescaped = NULL /\ decoded = NoOutcome /\ reescaped = NoOutcome
    /\ tmplIdle
    /\ fsIdle

Unescape ==
    /\ pc = "start"
    /\ unescaped' = systemd_unescape(instance)
    /\ pc' = "unescape"
    /\ UNCHANGED <<path, path2, instance, instance2, decoded, reescaped, tmplVars, fsVars, launcherVars>>

NextUnescape == Unescape

SpecUnescape == InitUnescape /\ [][NextUnescape]_vars

HexDigits == Chars(48, 57) \cup Chars(97, 102) \cup Chars(65, 70)
HexValue(c) ==
    IF c \in Chars(48, 57) THEN c - 48
    ELSE IF c \in Chars(97, 102) THEN c - 87
    ELSE c - 55

\* some '\' of n is not followed by 'x' and two hex digits
MalformedEscape(n) ==
    \E i \in 1..Len(n) :
        /\ n[i] = BACKSLASH
        /\ ~(/\ i + 3 <= Len(n)
             /\ n[i + 1] = LOWER_X
             /\ n[i + 2] \in HexDigits
             /\ n[i + 3] \in HexDigits)

\* the complete decoding of a well-formed n, as the claim states it
RECURSIVE FullDecoding(_, _)
FullDecoding(n, i) ==
    IF i > Len(n) THEN <<>>
    ELSE IF n[i] = DASH THEN <<SLASH>> \o FullDecoding(n, i + 1)
    ELSE IF n[i] = BACKSLASH
         THEN <<(HexValue(n[i + 2]) * 16) + HexValue(n[i + 3])>> \o FullDecoding(n, i + 4)
    ELSE <<n[i]>> \o FullDecoding(n, i + 1)

\* C5: systemd_unescape either fails or returns the complete decoding
\* ('-' to '/', "\xHH" to the byte HH, the rest unchanged); it fails exactly
\* when some '\' is not followed by 'x' and two hex digits, and the string
\* it returns is never shorter than the full decoding of the input.
C5_UnescapeComplete ==
    (pc = "unescape") =>
        /\ unescaped.null <=> MalformedEscape(instance)
        /\ ~unescaped.null => CStr(unescaped.buf) = FullDecoding(instance, 1)

\* the failure half of C5 alone, which the code meets
C5_FailsExactlyOnMalformed ==
    (pc = "unescape") => (unescaped.null <=> MalformedEscape(instance))

---------------------------------------------------------------------------
(* systemd_path_escape applied to two mountpoints *)

\* '/', '-', '.', '\' and 'a'
PairChars == {SLASH, DASH, DOT, BACKSLASH, 97}

NormalizedPaths == {p \in Strings(PairChars, MaxPairLen) : IsNormalized(p)}

InitPair ==
    /\ launcherIdle
    /\ pc = "start"
    /\ path \in NormalizedPaths
    /\ path2 \in NormalizedPaths
    /\ instance = <<>> /\ instance2 = <<>>
    /\ unescaped = NULL /\ decoded = NoOutcome /\ reescaped = NoOutcome
    /\ tmplIdle
    /\ fsIdle

PathEscapeBoth ==
    /\ pc = "start"
    /\ instance' = systemd_path_escape(path).ret
    /\ instance2' = systemd_path_escape(path2).ret
    /\ pc' = "path_escape"
    /\ UNCHANGED <<path, path2, unescaped, decoded, reescaped, tmplVars, fsVars, launcherVars>>

NextPair == PathEscapeBoth

SpecPair == InitPair /\ [][NextPair]_vars

\* C2: injectivity.  Two distinct normalized absolute paths never get the
\* same unit instance name.
C2_Injective ==
    (pc = "path_escape" /\ path # path2) => (instance # instance2)

\* two distinct mountpoints, one with a literal '-' where the other has a '/'
C2_Witness ==
    /\ pc = "path_escape"
    /\ path = <<SLASH, 97, DASH, 97>>
    /\ path2 = <<SLASH, 97, SLASH, 97>>
    /\ instance # instance2

---------------------------------------------------------------------------
(* systemd_template_unit and systemd_untemplate_unit *)

\* "onedriver@.service"
ONEDRIVER_SERVICE_TEMPLATE ==
    <<111, 110, 101, 100, 114, 105, 118, 101, 114, 64, 46, 115, 101, 114, 118, 105, 99, 101>>

\* "this-is-a-test" of main_test.c
TestInstance == <<116, 104, 105, 115, 45, 105, 115, 45, 97, 45, 116, 101, 115, 116>>

\* '@', '.' and 's'
TmplChars == {AT_SIGN, DOT, 115}
TemplateInputs == Strings(TmplChars, MaxTmplLen) \cup {ONEDRIVER_SERVICE_TEMPLATE}

\* instance names: the image of systemd_path_escape, the empty name, the test's name
TmplPathChars == {SLASH, DOT, AT_SIGN, 97}
EscapedInstances ==
    {systemd_path_escape(p).ret : p \in Strings(TmplPathChars, MaxTmplLen)}
TemplateInstances == EscapedInstances \cup {<<>>, TestInstance}

InitTemplate ==
    /\ launcherIdle
    /\ pc = "start"
    /\ template \in TemplateInputs
    /\ instance \in TemplateInstances
    /\ unit = NoOutcome /\ untemplated = NoOutcome
    /\ path = <<>> /\ path2 = <<>> /\ instance2 = <<>>
    /\ unescaped = NULL /\ decoded = NoOutcome /\ reescaped = NoOutcome
    /\ fsIdle

TemplateUnit ==
    /\ pc = "start"
    /\ unit' \in systemd_template_unit(template, instance)
    /\ pc' = "template_unit"
    /\ UNCHANGED <<codecVars, template, untemplated, fsVars, launcherVars>>

\* the unit name just built is taken apart again
UntemplateUnit ==
    /\ pc = "template_unit"
    /\ unit.rc = 0 /\ unit.mem = "ok"
    /\ untemplated' \in systemd_untemplate_unit(unit.ret)
    /\ pc' = "untemplate_unit"
    /\ UNCHANGED <<codecVars, template, unit, fsVars, launcherVars>>

\* systemd_untemplate_unit on a unit name that no template produced
UntemplateName ==
    /\ pc = "start"
    /\ untemplated' \in systemd_untemplate_unit(template)
    /\ pc' = "untemplate_name"
    /\ UNCHANGED <<codecVars, template, unit, fsVars, launcherVars>>

NextTemplate == TemplateUnit \/ UntemplateUnit \/ UntemplateName

SpecTemplate == InitTemplate /\ [][NextTemplate]_vars

Occurrences(s, c) == {i \in 1..Len(s) : s[i] = c}
LastOf(S) == CHOOSE i \in S : \A j \in S : j <= i

\* one '@' and a '.' after it
WellFormedTemplate(t) ==
    /\ Cardinality(Occurrences(t, AT_SIGN)) = 1
    /\ \E d \in Occurrences(t, DOT) : d > LastOf(Occurrences(t, AT_SIGN))

\* C6: for a template with one '@' and a '.'-delimited suffix after it,
\* systemd_template_unit returns the template up to and including the '@',
\* then the instance, then the template from its last '.' to the end, for
\* every instance (the empty one and ones with a '.' included);
\* "onedriver@.service" with "this-is-a-test" gives
\* "onedriver@this-is-a-test.service".
C6_TemplateUnit ==
    (pc = "template_unit" /\ WellFormedTemplate(template)) =>
        /\ unit.rc = 0
        /\ unit.mem = "ok"
        /\ unit.ret = SubSeq(template, 1, LastOf(Occurrences(template, AT_SIGN)))
                        \o instance
                        \o SubSeq(template, LastOf(Occurrences(template, DOT)), Len(template))
        /\ (template = ONEDRIVER_SERVICE_TEMPLATE /\ instance = TestInstance) =>
              unit.ret = <<111, 110, 101, 100, 114, 105, 118, 101, 114, 64, 116, 104,
                           105, 115, 45, 105, 115, 45, 97, 45, 116, 101, 115, 116, 46,
                           115, 101, 114, 118, 105, 99, 101>>

\* the service template was expanded with an instance name that holds a '.'
C6_Witness ==
    /\ pc = "template_unit"
    /\ template = ONEDRIVER_SERVICE_TEMPLATE
    /\ instance = <<97, DOT, 97>>
    /\ Len(unit.ret) = Len(ONEDRIVER_SERVICE_TEMPLATE) + 3

\* a unit name with an '@' and a '.' somewhere after the last '@', and the
\* text between that '@' and the last '.'
DotAfterLastAt(u) ==
    /\ Occurrences(u, AT_SIGN) # {}
    /\ \E d \in Occurrences(u, DOT) : d > LastOf(Occurrences(u, AT_SIGN))
TextBetweenAtAndDot(u) ==
    SubSeq(u, LastOf(Occurrences(u, AT_SIGN)) + 1, LastOf(Occurrences(u, DOT)) - 1)

\* C7: systemd_untemplate_unit inverts systemd_template_unit: for
\* "onedriver@.service" and every instance name i in the image of
\* systemd_path_escape, untemplate(template_unit(T, i)) succeeds and returns
\* exactly i; the instance returned is the text between the last '@' and the
\* '.' that follows it; the call fails with -1 when the name holds no '@'.
C7_UntemplateInverse ==
    /\ (pc = "untemplate_unit" /\ template = ONEDRIVER_SERVICE_TEMPLATE
          /\ instance \in EscapedInstances) =>
           (untemplated.rc = 0 /\ untemplated.mem = "ok" /\ untemplated.ret = instance)
    /\ (pc = "untemplate_name" /\ Occurrences(template, AT_SIGN) = {}) =>
           (untemplated.rc = -1 /\ untemplated.mem = "ok")
    /\ (pc = "untemplate_name" /\ DotAfterLastAt(template)) =>
           /\ untemplated.rc = 0
           /\ untemplated.mem = "ok"
           /\ untemplated.ret = TextBetweenAtAndDot(template)

\* what C7 says of the value, leaving aside whether the heap survived the call
C7_ValueWhenHeapIntact ==
    /\ (pc = "untemplate_unit" /\ template = ONEDRIVER_SERVICE_TEMPLATE
          /\ untemplated.mem = "ok") =>
           (untemplated.rc = 0 /\ untemplated.ret = instance)
    /\ (pc = "untemplate_name" /\ Occurrences(template, AT_SIGN) = {}) =>
           (untemplated.rc = -1 /\ untemplated.mem = "ok")
    /\ (pc = "untemplate_name" /\ DotAfterLastAt(template) /\ untemplated.mem = "ok") =>
           (untemplated.rc = 0 /\ untemplated.ret = TextBetweenAtAndDot(template))

\* C8: systemd_template_unit fails (returns an error, produces no unit name)
\* when the template holds no '@' or no '.'; it never crashes on such a
\* template.
C8_TemplateRejected ==
    (pc = "template_unit"
       /\ (Occurrences(template, AT_SIGN) = {} \/ Occurrences(template, DOT) = {})) =>
        (unit.rc # 0 /\ unit.mem = "ok" /\ unit.ret = <<>>)

---------------------------------------------------------------------------
(* fs_mountpoint_is_valid on a changing file system *)

\* "mount", "_test", "fs" of main_test.c
DiskPaths ==
    { <<109, 111, 117, 110, 116>>, <<95, 116, 101, 115, 116>>, <<102, 115>> }

\* ".example" of main_test.c, and a file that is not hidden: "f"
EntryNames == { <<46, 101, 120, 97, 109, 112, 108, 101>>, <<102>> }

InitValid ==
    /\ launcherIdle
    /\ pc = "start"
    /\ disk = [p \in DiskPaths |-> NoNode]
    /\ cache = [exists |-> FALSE, entries |-> <<>>]
    /\ mountpoint = NULL /\ valid = FALSE /\ mounts = NoOutcome
    /\ codecIdle /\ tmplIdle

Mkdir(p) ==
    /\ pc = "start"
    /\ disk[p].type = 0
    /\ disk' = [disk EXCEPT ![p] = Node(S_IFDIR, TRUE, {})]
    /\ UNCHANGED <<pc, codecVars, tmplVars, cache, mountpoint, valid, mounts, launcherVars>>

\* fopen(p, "w") of a new regular file
CreateFile(p) ==
    /\ pc = "start"
    /\ disk[p].type = 0
    /\ disk' = [disk EXCEPT ![p] = Node(S_IFREG, TRUE, {})]
    /\ UNCHANGED <<pc, codecVars, tmplVars, cache, mountpoint, valid, mounts, launcherVars>>

\* a file is created inside directory p
CreateEntry(p, n) ==
    /\ pc = "start"
    /\ disk[p].type = S_IFDIR
    /\ n \notin disk[p].entries
    /\ disk' = [disk EXCEPT ![p].entries = @ \cup {n}]
    /\ UNCHANGED <<pc, codecVars, tmplVars, cache, mountpoint, valid, mounts, launcherVars>>

\* unlink of a file inside directory p
Unlink(p, n) ==
    /\ pc = "start"
    /\ n \in disk[p].entries
    /\ disk' = [disk EXCEPT ![p].entries = @ \ {n}]
    /\ UNCHANGED <<pc, codecVars, tmplVars, cache, mountpoint, valid, mounts, launcherVars>>

\* rmdir of an empty directory, unlink of a regular file
Remove(p) ==
    /\ pc = "start"
    /\ disk[p].type # 0
    /\ disk[p].entries = {}
    /\ disk' = [disk EXCEPT ![p] = NoNode]
    /\ UNCHANGED <<pc, codecVars, tmplVars, cache, mountpoint, valid, mounts, launcherVars>>

\* the directory's read permission is taken away or given back
Chmod(p) ==
    /\ pc = "start"
    /\ disk[p].type = S_IFDIR
    /\ disk' = [disk EXCEPT ![p].readable = ~@]
    /\ UNCHANGED <<pc, codecVars, tmplVars, cache, mountpoint, valid, mounts, launcherVars>>

MountpointIsValid(mp) ==
    /\ pc = "start"
    /\ mountpoint' = mp
    /\ \E listing \in Listings(DotEntries \cup
                        (IF ~mp.null /\ mp.buf \in DOMAIN disk THEN disk[mp.buf].entries ELSE {})) :
          valid' = fs_mountpoint_is_valid(mp, listing)
    /\ pc' = "mountpoint_is_valid"
    /\ UNCHANGED <<codecVars, tmplVars, disk, cache, mounts, launcherVars>>

NextValid ==
    \/ \E p \in DiskPaths : Mkdir(p)
    \/ \E p \in DiskPaths : CreateFile(p)
    \/ \E p \in DiskPaths, n \in EntryNames : CreateEntry(p, n)
    \/ \E p \in DiskPaths, n \in EntryNames : Unlink(p, n)
    \/ \E p \in DiskPaths : Remove(p)
    \/ \E p \in DiskPaths : Chmod(p)
    \/ \E mp \in {NULL, Ptr(<<>>)} \cup {Ptr(p) : p \in DiskPaths} : MountpointIsValid(mp)

SpecValid == InitValid /\ [][NextValid]_vars

\* C9: fs_mountpoint_is_valid(path) is true if and only if path is non-null
\* and non-empty, can be opened as a directory, and the directory has no
\* entry other than "." and ".." (a hidden file makes it invalid; a regular
\* file or a missing path is invalid).
C9_MountpointIsValid ==
    (pc = "mountpoint_is_valid") =>
        (valid <=>
            /\ ~mountpoint.null
            /\ mountpoint.buf # <<>>
            /\ mountpoint.buf \in DOMAIN disk
            /\ disk[mountpoint.buf].type = S_IFDIR
            /\ disk[mountpoint.buf].readable
            /\ disk[mountpoint.buf].entries = {})

\* an empty directory was found valid
C9_Witness ==
    /\ pc = "mountpoint_is_valid"
    /\ valid
    /\ mountpoint = Ptr(<<109, 111, 117, 110, 116>>)
    /\ disk[<<95, 116, 101, 115, 116>>].entries = {<<46, 101, 120, 97, 109, 112, 108, 101>>}

---------------------------------------------------------------------------
(* fs_known_mounts on a changing cache root and file system *)

\* directory names in the cache root: "a", "a-b", the dotfile ".a", and "a\x"
\* whose escape is cut short
CacheNames == { <<97>>, <<97, DASH, 97>>, <<DOT, 97>>, <<97, BACKSLASH, LOWER_X>> }

\* paths that names of the cache root decode to: "/a", "/a/a"
MountPaths == { <<SLASH, 97>>, <<SLASH, 97, SLASH, 97>> }

InitKnown ==
    /\ launcherIdle
    /\ pc = "start"
    /\ disk = [p \in MountPaths |-> NoNode]
    /\ cache = [exists |-> FALSE, entries |-> [n \in CacheNames |-> 0]]
    /\ mountpoint = NULL /\ valid = FALSE /\ mounts = NoOutcome
    /\ codecIdle /\ tmplIdle

\* mkdir of the cache root
CacheRootCreate ==
    /\ pc = "start"
    /\ ~cache.exists
    /\ cache' = [cache EXCEPT !.exists = TRUE]
    /\ UNCHANGED <<pc, codecVars, tmplVars, disk, mountpoint, valid, mounts, launcherVars>>

\* a file of type t named n appears in the cache root
CacheEntryCreate(n, t) ==
    /\ pc = "start"
    /\ cache.exists
    /\ cache.entries[n] = 0
    /\ cache' = [cache EXCEPT !.entries[n] = t]
    /\ UNCHANGED <<pc, codecVars, tmplVars, disk, mountpoint, valid, mounts, launcherVars>>

CacheEntryRemove(n) ==
    /\ pc = "start"
    /\ cache.entries[n] # 0
    /\ cache' = [cache EXCEPT !.entries[n] = 0]
    /\ UNCHANGED <<pc, codecVars, tmplVars, disk, mountpoint, valid, mounts, launcherVars>>

\* a file of type t appears at path p
DiskCreate(p, t) ==
    /\ pc = "start"
    /\ disk[p].type = 0
    /\ disk' = [disk EXCEPT ![p] = Node(t, TRUE, {})]
    /\ UNCHANGED <<pc, codecVars, tmplVars, cache, mountpoint, valid, mounts, launcherVars>>

DiskRemove(p) ==
    /\ pc = "start"
    /\ disk[p].type # 0
    /\ disk' = [disk EXCEPT ![p] = NoNode]
    /\ UNCHANGED <<pc, codecVars, tmplVars, cache, mountpoint, valid, mounts, launcherVars>>

KnownMounts ==
    /\ pc = "start"
    /\ \E listing \in Listings({n \in CacheNames : cache.entries[n] # 0}) :
          mounts' \in fs_known_mounts(<<<<DOT>>, <<DOT, DOT>>>> \o listing)
    /\ pc' = "known_mounts"
    /\ UNCHANGED <<codecVars, tmplVars, disk, cache, mountpoint, valid, launcherVars>>

NextKnown ==
    \/ CacheRootCreate
    \/ \E n \in CacheNames, t \in FileTypes : CacheEntryCreate(n, t)
    \/ \E n \in CacheNames : CacheEntryRemove(n)
    \/ \E p \in MountPaths, t \in FileTypes : DiskCreate(p, t)
    \/ \E p \in MountPaths : DiskRemove(p)
    \/ KnownMounts

SpecKnown == InitKnown /\ [][NextKnown]_vars

Range(f) == {f[i] : i \in DOMAIN f}

\* the names in the cache root, and whether each of them decodes
CacheEntries == {n \in CacheNames : cache.exists /\ cache.entries[n] # 0}
AllNamesDecode == \A n \in CacheEntries : ~MalformedEscape(n)

\* the mountpoints the claim expects: "/" + unescape(name) for the entries
\* that are directories, do not start with '.', and decode to a path that
\* exists as a directory
ExpectedMounts ==
    { <<SLASH>> \o FullDecoding(n, 1) :
        n \in { m \in CacheEntries :
                  /\ cache.entries[m] = S_IFDIR
                  /\ m[1] # DOT
                  /\ ~MalformedEscape(m)
                  /\ stat_mode(<<SLASH>> \o FullDecoding(m, 1)) = S_IFDIR } }

\* C10 (cache roots whose entry names all decode): fs_known_mounts returns
\* exactly the paths "/" + unescape(name) for the entries of the cache root
\* that are directories, do not start with '.', and whose decoded path exists
\* on disk as a directory and not as any other file type; entries whose
\* decoded path is missing are skipped, and a missing cache root gives the
\* empty list.
C10_KnownMounts ==
    (pc = "known_mounts" /\ AllNamesDecode) =>
        (mounts.mem = "ok" /\ Range(mounts.ret) = ExpectedMounts)

---------------------------------------------------------------------------
(* The service controller (systemd.c 226-400) and the manager on the
   session bus that it talks to.

   Every controller function opens its own connection and proxy, sends its
   requests and returns; g_error() logs at G_LOG_LEVEL_ERROR, which ends the
   process with abort(), so the statements after it are never reached.

   fault is the way the bus treats the next call: "none" (it answers),
   "connect" (g_bus_get_sync fails), "remote" (the method call comes back
   with an error that is not NoSuchUnit), "noprop" (the unit's object
   carries no ActiveState property). *)

Faults == {"none", "connect", "remote", "noprop"}
ActiveStates == {"inactive", "activating", "active", "deactivating"}

\* GetUnit: the unit's object path, or the error NoSuchUnit (FALSE) when the
\* unit is not loaded
GetUnit(us, unit_name) == us[unit_name].loaded

\* StartUnit / StopUnit in mode "replace": the manager loads the unit and
\* queues the job, replacing a queued one; the reply is sent when the job is
\* queued.  A unit already in the target state needs no job.
StartUnit_restarts(us, unit_name) ==
    [us EXCEPT ![unit_name].loaded = TRUE, ![unit_name].job = "start"]
StartUnit(us, unit_name) ==
    [us EXCEPT ![unit_name].loaded = TRUE,
               ![unit_name].job =
                   IF us[unit_name].ActiveState = "active" THEN "none" ELSE "start"]
StopUnit(us, unit_name) ==
    [us EXCEPT ![unit_name].job =
                   IF us[unit_name].ActiveState = "inactive" THEN "none" ELSE "stop"]

\* EnableUnitFiles / DisableUnitFiles: the unit file's links are created or
\* removed; GetUnitFileState reads them back
EnableUnitFiles(us, unit_name) ==
    [us EXCEPT ![unit_name].UnitFileState = "enabled"]
DisableUnitFiles(us, unit_name) ==
    [us EXCEPT ![unit_name].UnitFileState = "disabled"]
GetUnitFileState(us, unit_name) == us[unit_name].UnitFileState

\* dbus_proxy_new: err is set when the session bus cannot be reached
dbus_proxy_new(f) == [err |-> f = "connect"]

systemd_unit_is_active_when_loaded(f, us, unit_name) ==
    Call(unit_name, FALSE, us[unit_name], "running", GetUnit(us, unit_name),
         <<"GetUnit">>, "none")

systemd_unit_is_active(f, us, unit_name) ==
    LET call(proc, r, calls, failure) ==
            Call(unit_name, FALSE, us[unit_name], proc, r, calls, failure)
    IN  IF dbus_proxy_new(f).err THEN call("aborted", FALSE, <<>>, "connect")
        ELSE IF f = "remote" THEN call("aborted", FALSE, <<"GetUnit">>, "remote")
        ELSE IF ~GetUnit(us, unit_name)
            THEN call("running", FALSE, <<"GetUnit">>, "NoSuchUnit")
        \* strcmp(g_variant_get_string(NULL, NULL), "active")
        ELSE IF f = "noprop" THEN call("segv", FALSE, <<"GetUnit">>, "noprop")
        ELSE call("running", us[unit_name].ActiveState = "active", <<"GetUnit">>, "none")

\* the functions that change the manager's state give the call and the units
systemd_unit_set_active(f, us, unit_name, active) ==
    LET method_name == IF active THEN "StartUnit" ELSE "StopUnit"
        call(proc, r, calls, failure) ==
            Call(unit_name, active, us[unit_name], proc, r, calls, failure)
    IN  IF dbus_proxy_new(f).err
            THEN [ctl |-> call("aborted", FALSE, <<>>, "connect"), units |-> us]
        ELSE IF f = "remote"
            THEN [ctl |-> call("aborted", FALSE, <<method_name>>, "remote"), units |-> us]
        ELSE [ctl |-> call("running", TRUE, <<method_name>>, "none"),
              units |-> IF active THEN StartUnit(us, unit_name)
                        ELSE StopUnit(us, unit_name)]

systemd_unit_is_enabled(f, us, unit_name) ==
    LET call(proc, r, calls, failure) ==
            Call(unit_name, FALSE, us[unit_name], proc, r, calls, failure)
    IN  IF dbus_proxy_new(f).err THEN call("aborted", FALSE, <<>>, "connect")
        ELSE IF f = "remote"
            THEN call("aborted", FALSE, <<"GetUnitFileState">>, "remote")
        ELSE call("running", GetUnitFileState(us, unit_name) = "enabled",
                  <<"GetUnitFileState">>, "none")

systemd_unit_set_enabled_always_enables(f, us, unit_name, enabled) ==
    [ctl |-> Call(unit_name, enabled, us[unit_name], "running", TRUE,
                  <<"EnableUnitFiles">>, "none"),
     units |-> EnableUnitFiles(us, unit_name)]
systemd_unit_set_enabled_and_stop(f, us, unit_name, enabled) ==
    [ctl |-> Call(unit_name, enabled, us[unit_name], "running", TRUE,
                  <<"DisableUnitFiles", "StopUnit">>, "none"),
     units |-> StopUnit(DisableUnitFiles(us, unit_name), unit_name)]
systemd_unit_set_enabled(f, us, unit_name, enabled) ==
    LET method_name == IF enabled THEN "EnableUnitFiles" ELSE "DisableUnitFiles"
        call(proc, r, calls, failure) ==
            Call(unit_name, enabled, us[unit_name], proc, r, calls, failure)
    IN  IF dbus_proxy_new(f).err
            THEN [ctl |-> call("aborted", FALSE, <<>>, "connect"), units |-> us]
        ELSE IF f = "remote"
            THEN [ctl |-> call("aborted", FALSE, <<method_name>>, "remote"), units |-> us]
        ELSE [ctl |-> call("running", TRUE, <<method_name>>, "none"),
              units |-> IF enabled THEN EnableUnitFiles(us, unit_name)
                        ELSE DisableUnitFiles(us, unit_name)]

---------------------------------------------------------------------------
(* The controller called in any order while the manager runs its jobs *)

busFrame == <<codecVars, tmplVars, fsVars, poll, sentinelAt, home, ui>>

InitBus ==
    /\ pc = "start"
    /\ poll = NoPoll /\ sentinelAt = NotYet /\ home = NoHome /\ ui = NoUi
    /\ fault = "none"
    /\ units \in [UnitNames ->
                    {Unit(FALSE, "inactive", "none", file) :
                        file \in {"enabled", "disabled"}}]
    /\ ctl = NoCall
    /\ codecIdle /\ tmplIdle /\ fsIdle

IsActive(unit_name) ==
    /\ ctl.proc = "running"
    /\ ctl' = systemd_unit_is_active(fault, units, unit_name)
    /\ pc' = "is_active"
    /\ UNCHANGED <<fault, units, busFrame>>

SetActive(unit_name, active) ==
    /\ ctl.proc = "running"
    /\ LET done == systemd_unit_set_active(fault, units, unit_name, active)
       IN  ctl' = done.ctl /\ units' = done.units
    /\ pc' = "set_active"
    /\ UNCHANGED <<fault, busFrame>>

IsEnabled(unit_name) ==
    /\ ctl.proc = "running"
    /\ ctl' = systemd_unit_is_enabled(fault, units, unit_name)
    /\ pc' = "is_enabled"
    /\ UNCHANGED <<fault, units, busFrame>>

SetEnabled(unit_name, enabled) ==
    /\ ctl.proc = "running"
    /\ LET done == systemd_unit_set_enabled(fault, units, unit_name, enabled)
       IN  ctl' = done.ctl /\ units' = done.units
    /\ pc' = "set_enabled"
    /\ UNCHANGED <<fault, busFrame>>

\* the bus starts or stops failing
BusFault(f) ==
    /\ fault # f
    /\ fault' = f
    /\ pc' = "manager"
    /\ UNCHANGED <<units, ctl, busFrame>>

\* a queued job taken one transition further: a start job leads through
\* "activating" to "active", a stop job through "deactivating" to "inactive"
JobStep(us, unit_name) ==
    LET u == us[unit_name]
        next ==
            IF u.job = "start"
            THEN IF u.ActiveState = "activating"
                 THEN [u EXCEPT !.ActiveState = "active", !.job = "none"]
                 ELSE [u EXCEPT !.ActiveState = "activating"]
            ELSE IF u.ActiveState = "deactivating"
                 THEN [u EXCEPT !.ActiveState = "inactive", !.job = "none"]
                 ELSE [u EXCEPT !.ActiveState = "deactivating"]
    IN  [us EXCEPT ![unit_name] = next]

\* the manager runs a queued job
JobRun(unit_name) ==
    /\ units[unit_name].job # "none"
    /\ units' = JobStep(units, unit_name)
    /\ pc' = "manager"
    /\ UNCHANGED <<fault, ctl, busFrame>>

\* the manager unloads an inactive unit nothing refers to
UnitUnload(unit_name) ==
    /\ units[unit_name].loaded
    /\ units[unit_name].ActiveState = "inactive"
    /\ units[unit_name].job = "none"
    /\ units' = [units EXCEPT ![unit_name].loaded = FALSE]
    /\ pc' = "manager"
    /\ UNCHANGED <<fault, ctl, busFrame>>

NextBus ==
    \/ \E unit_name \in UnitNames : IsActive(unit_name)
    \/ \E unit_name \in UnitNames, active \in BOOLEAN : SetActive(unit_name, active)
    \/ \E unit_name \in UnitNames : IsEnabled(unit_name)
    \/ \E unit_name \in UnitNames, enabled \in BOOLEAN : SetEnabled(unit_name, enabled)
    \/ \E f \in Faults : BusFault(f)
    \/ \E unit_name \in UnitNames : JobRun(unit_name)
    \/ \E unit_name \in UnitNames : UnitUnload(unit_name)

SpecBus == InitBus /\ [][NextBus]_vars


---------------------------------------------------------------------------
(* Claims about the controller *)

ControllerCalls == {"is_active", "set_active", "is_enabled", "set_enabled"}

\* the call returned to its caller, with this value
Returned(r) == ctl.proc = "running" /\ ctl.r = r

\* what the bus tells about a unit at this moment
BusKnows(unit_name) == fault \notin {"connect", "remote"} /\ units[unit_name].loaded
ActiveStateIs(unit_name, state) ==
    fault # "noprop" /\ units[unit_name].ActiveState = state

\* C11: systemd_unit_is_active(u) returns true if and only if, at the moment
\* of the call, the bus knows unit u and its ActiveState is exactly "active";
\* when GetUnit answers NoSuchUnit the call returns false and does not treat
\* it as an error; the answer is that of the bus at this call, whatever an
\* earlier call returned.
C11_IsActive ==
    pc = "is_active" =>
        /\ Returned(TRUE) <=>
               (BusKnows(ctl.unit_name) /\ ActiveStateIs(ctl.unit_name, "active"))
        /\ (fault \notin {"connect", "remote"} /\ ~units[ctl.unit_name].loaded) =>
               (Returned(FALSE) /\ ctl.failure = "NoSuchUnit")

\* is_active answers true for a unit that an earlier start made active
C11_Witness ==
    /\ pc = "is_active" /\ Returned(TRUE)
    /\ units[ctl.unit_name].ActiveState = "active"

\* the call met a failure: no connection, a remote error other than
\* NoSuchUnit, or a unit object without the ActiveState property
CallFailed == ctl.failure \in {"connect", "remote", "noprop"}

\* C12: every controller operation reports a failure as the return value
\* false and lets the caller continue - when the bus connection cannot be
\* made, when the remote call returns an error other than unit-unknown, or
\* when the response lacks the ActiveState property; the process is never
\* aborted and no missing value is dereferenced; set_active and set_enabled
\* return true only if the call completed without a remote error.
C12_FailureReturnsFalse ==
    pc \in ControllerCalls =>
        /\ ctl.proc = "running"
        /\ CallFailed => ctl.r = FALSE
        /\ (pc \in {"set_active", "set_enabled"} /\ ctl.r = TRUE) =>
               ctl.failure = "none"

\* what does hold: true is returned only by a call that met no failure
C12_TrueOnlyWithoutFailure ==
    (pc \in ControllerCalls /\ ctl.r = TRUE) =>
        (ctl.proc = "running" /\ ctl.failure = "none")


\* the unit is already in the state that set_active / set_enabled asks for
InRequestedState(u, call, arg) ==
    IF call = "set_active"
    THEN u.job = "none" /\ u.ActiveState = (IF arg THEN "active" ELSE "inactive")
    ELSE u.UnitFileState = (IF arg THEN "enabled" ELSE "disabled")

\* C13 (over a bus that answers): set_active(u, true), set_active(u, false),
\* set_enabled(u, true) and set_enabled(u, false) issued when the unit is
\* already in the requested state report success and leave the active state
\* and the enabled flag of the unit unchanged; so a set_enabled(u, true) that
\* follows a successful set_enabled(u, true) returns true again and leaves
\* the unit enabled.
C13_Idempotent ==
    [][(/\ pc' \in {"set_active", "set_enabled"}
        /\ fault = "none"
        /\ InRequestedState(units[ctl'.unit_name], pc', ctl'.arg))
       => (/\ ctl'.proc = "running" /\ ctl'.r = TRUE
           /\ units' = units)]_vars

\* each of the four calls has been made on a unit already in the requested
\* state; here: a stop of an inactive unit without a job
C13_Witness ==
    /\ pc = "set_active" /\ ~ctl.arg /\ Returned(TRUE)
    /\ InRequestedState(ctl.was, pc, ctl.arg)
    /\ units[ctl.unit_name] = ctl.was

\* C14: for any sequence of set_enabled calls on an installed template unit
\* over a working bus, each call returns true, and is_enabled(u) called right
\* after a set_enabled(u, v) returns v, whatever the flag was before.
C14_EnabledFollowsRequest ==
    [][/\ (pc' = "set_enabled" /\ fault = "none") =>
              (ctl'.proc = "running" /\ ctl'.r = TRUE)
       /\ (/\ pc = "set_enabled" /\ pc' = "is_enabled" /\ fault = "none"
           /\ ctl'.unit_name = ctl.unit_name)
          => (ctl'.proc = "running" /\ ctl'.r = ctl.arg)]_vars

\* a set_enabled(u, false) has disabled a unit that was enabled
C14_Witness ==
    /\ pc = "set_enabled" /\ ~ctl.arg /\ Returned(TRUE)
    /\ ctl.was.UnitFileState = "enabled"
    /\ units[ctl.unit_name].UnitFileState = "disabled"


\* C17: the enabled flag and the unit state are independent - set_enabled
\* issues only EnableUnitFiles / DisableUnitFiles and leaves the active state
\* (and the jobs) of every unit unchanged; set_active issues only StartUnit /
\* StopUnit and leaves the enabled flag of every unit unchanged; is_active and
\* is_enabled change nothing.
C17_Independent ==
    [][/\ pc' = "set_enabled" =>
              /\ Range(ctl'.calls) \subseteq {"EnableUnitFiles", "DisableUnitFiles"}
              /\ \A u \in UnitNames :
                     /\ units'[u].ActiveState = units[u].ActiveState
                     /\ units'[u].job = units[u].job
       /\ pc' = "set_active" =>
              /\ Range(ctl'.calls) \subseteq {"StartUnit", "StopUnit"}
              /\ \A u \in UnitNames :
                     units'[u].UnitFileState = units[u].UnitFileState
       /\ pc' \in {"is_active", "is_enabled"} => units' = units]_vars

\* an active unit has been enabled and is still active, with no job queued
C17_Witness ==
    /\ pc = "set_enabled" /\ ctl.arg /\ Returned(TRUE)
    /\ ctl.was.UnitFileState = "disabled"
    /\ units[ctl.unit_name].UnitFileState = "enabled"
    /\ units[ctl.unit_name].ActiveState = "active"
    /\ units[ctl.unit_name].job = "none"


---------------------------------------------------------------------------
(* onedriver.c: fs_poll_until_avail.  The loop is followed one iteration at a
   time, the mountpoint changing between its polls and during its sleeps. *)

\* ".xdg-volume-info"
XDG_VOLUME_INFO ==
    <<46, 120, 100, 103, 45, 118, 111, 108, 117, 109, 101, 45, 105, 110, 102, 111>>

\* the timeout used when -1 is passed, and the polls made per second
DEFAULT_TIMEOUT == 120
POLLS_PER_SECOND == 10

\* entry: found = false, the default timeout, i = 0
fs_poll_until_avail(mp, timeout) ==
    [mountpoint |-> mp, arg |-> timeout,
     timeout |-> IF timeout = -1 THEN DEFAULT_TIMEOUT ELSE timeout,
     i |-> 0, found |-> FALSE, polls |-> 0, sleeps |-> 0, at |-> "loop"]

\* the readdir loop: is there an entry named XDG_VOLUME_INFO
RECURSIVE poll_readdir(_, _)
poll_readdir(listing, n) ==
    IF n > Len(listing) THEN FALSE
    ELSE IF listing[n] = XDG_VOLUME_INFO THEN TRUE
    ELSE poll_readdir(listing, n + 1)

\* an iteration that sleeps even when the sentinel was found
poll_iteration_always_sleeps(p, listing) ==
    IF ~(p.i < p.timeout * POLLS_PER_SECOND) THEN [p EXCEPT !.at = "returned"]
    ELSE LET dir == opendir(p.mountpoint, listing) IN
         IF dir.null THEN [p EXCEPT !.at = "returned"]
         ELSE [p EXCEPT !.found = @ \/ poll_readdir(dir.buf, 1), !.polls = @ + 1,
                        !.at = "sleep"]

\* the loop test and the body up to the sleep: opendir, readdir, closedir
poll_iteration(p, listing) ==
    IF ~(p.i < p.timeout * POLLS_PER_SECOND) THEN [p EXCEPT !.at = "returned"]
    ELSE LET dir == opendir(p.mountpoint, listing) IN
         IF dir.null THEN [p EXCEPT !.at = "returned"]
         ELSE LET found == p.found \/ poll_readdir(dir.buf, 1) IN
              [p EXCEPT !.found = found, !.polls = @ + 1,
                        !.at = IF found THEN "returned" ELSE "sleep"]

\* usleep(100 * 1000) and i++
poll_usleep(p) == [p EXCEPT !.sleeps = @ + 1, !.i = @ + 1, !.at = "loop"]

\* "mount" of main_test.c
MountDir == <<109, 111, 117, 110, 116>>

Timeouts == {-1} \cup (0..MaxTimeout)

pollFrame ==
    <<codecVars, tmplVars, cache, mountpoint, valid, mounts, busVars, sentinelAt, home, ui>>

InitPoll ==
    /\ pc = "start"
    /\ disk \in [{MountDir} -> {NoNode, Node(S_IFDIR, TRUE, {}),
                               Node(S_IFDIR, TRUE, {XDG_VOLUME_INFO})}]
    /\ cache = [exists |-> FALSE, entries |-> <<>>]
    /\ mountpoint = NULL /\ valid = FALSE /\ mounts = NoOutcome
    /\ poll = NoPoll /\ sentinelAt = NotYet /\ home = NoHome /\ ui = NoUi
    /\ codecIdle /\ tmplIdle /\ busIdle

PollCall(timeout) ==
    /\ poll.at = "idle"
    /\ poll' = fs_poll_until_avail(MountDir, timeout)
    /\ pc' = "polling"
    /\ UNCHANGED <<disk, pollFrame>>

PollIteration ==
    /\ poll.at = "loop"
    /\ \E listing \in Listings(DotEntries \cup disk[poll.mountpoint].entries) :
          poll' = poll_iteration(poll, listing)
    /\ pc' = IF poll'.at = "returned" THEN "polled" ELSE "polling"
    /\ UNCHANGED <<disk, pollFrame>>

PollSleep ==
    /\ poll.at = "sleep"
    /\ poll' = poll_usleep(poll)
    /\ UNCHANGED <<pc, disk, pollFrame>>

\* the file system is mounted on the directory: the sentinel appears
SentinelCreate ==
    /\ disk[MountDir].type = S_IFDIR
    /\ XDG_VOLUME_INFO \notin disk[MountDir].entries
    /\ disk' = [disk EXCEPT ![MountDir].entries = @ \cup {XDG_VOLUME_INFO}]
    /\ UNCHANGED <<pc, poll, pollFrame>>

\* the file system is unmounted
SentinelRemove ==
    /\ XDG_VOLUME_INFO \in disk[MountDir].entries
    /\ disk' = [disk EXCEPT ![MountDir].entries = @ \ {XDG_VOLUME_INFO}]
    /\ UNCHANGED <<pc, poll, pollFrame>>

\* the directory is removed, or created
MountDirRemove ==
    /\ disk[MountDir].type = S_IFDIR
    /\ disk[MountDir].entries = {}
    /\ disk' = [disk EXCEPT ![MountDir] = NoNode]
    /\ UNCHANGED <<pc, poll, pollFrame>>

MountDirCreate ==
    /\ disk[MountDir].type = 0
    /\ disk' = [disk EXCEPT ![MountDir] = Node(S_IFDIR, TRUE, {})]
    /\ UNCHANGED <<pc, poll, pollFrame>>

NextPoll ==
    \/ \E timeout \in Timeouts : PollCall(timeout)
    \/ PollIteration
    \/ PollSleep
    \/ SentinelCreate
    \/ SentinelRemove
    \/ MountDirRemove
    \/ MountDirCreate

SpecPoll == InitPoll /\ [][NextPoll]_vars

\* the calling thread runs on: a loop iteration or a sleep that can be taken
\* is taken
SpecPollFair ==
    InitPoll /\ [][NextPoll]_vars /\ WF_vars(PollIteration) /\ WF_vars(PollSleep)


---------------------------------------------------------------------------
(* Claims about fs_poll_until_avail *)

PollLimit == poll.timeout * POLLS_PER_SECOND
PollReturned == poll.at = "returned"
\* it returned because opendir failed: before the limit and without the sentinel
PollNoDir == PollReturned /\ ~poll.found /\ poll.i < PollLimit
\* it returned because the limit was reached
PollTimedOut == PollReturned /\ ~poll.found /\ ~(poll.i < PollLimit)

\* what the claim says of every timeout: -1 stands for 120 seconds; polls are
\* 100 ms apart (one sleep between two polls); the call returns at once when
\* the directory cannot be opened, right after the first poll that shows the
\* sentinel (no poll or sleep after it), and otherwise after exactly
\* 10 * timeout polls
PollCounts ==
    /\ poll.arg = -1 => poll.timeout = 120
    /\ poll.sleeps = poll.i
    /\ poll.polls \in {poll.sleeps, poll.sleeps + 1}
    /\ poll.polls <= 10 * poll.timeout
    /\ (PollReturned /\ poll.found) =>
           (poll.polls = poll.i + 1 /\ poll.sleeps = poll.polls - 1)
    /\ PollNoDir => poll.polls = poll.i
    /\ PollTimedOut => poll.polls = 10 * poll.timeout

\* C16 as stated: fs_poll_until_avail always terminates and never reports
\* failure; it returns immediately when the directory cannot be opened, right
\* after the first poll whose listing contains ".xdg-volume-info", and
\* otherwise after exactly 10*timeout polls spaced 100 ms apart (-1 meaning
\* 120 seconds); for every timeout >= 0 the sentinel is checked at least once
\* before returning.
C16_Original ==
    poll.at # "idle" =>
        /\ PollCounts
        /\ (PollReturned /\ poll.arg >= 0 /\ ~PollNoDir) => poll.polls >= 1

C16_Amended ==
    poll.at # "idle" =>
        /\ PollCounts
        /\ (PollReturned /\ poll.timeout >= 1 /\ ~PollNoDir) => poll.polls >= 1
        /\ poll.timeout = 0 => (poll.polls = 0 /\ poll.sleeps = 0)

\* C16 (amended): as stated above, except that the sentinel is checked at
\* least once only for a timeout of 1 or more (or -1); with timeout 0 the
\* call returns without a single poll.  Every call returns.
C16_PollTerminates ==
    /\ []C16_Amended
    /\ (poll.at = "loop") ~> PollReturned

\* the sentinel was found by a poll that was not the first
C16_Witness == PollReturned /\ poll.found /\ poll.polls >= 2

\* the limit was reached without the sentinel, after the default 120 seconds
C16_WitnessTimedOut == PollTimedOut /\ poll.arg = -1 /\ poll.polls = 1200


---------------------------------------------------------------------------
(* End to end, as in test_systemd_unit_active (main_test.c 102-130): start
   the unit of the mountpoint, wait for the mount, ask whether the unit is
   active, stop it, ask again.  The manager runs the queued jobs in its own
   time, and the service mounts the file system - the sentinel appears in the
   mountpoint - some time after its unit became active. *)

\* unit(D) for D = cwd/mount
TestUnit == "onedriver@mount.service"

InitEndToEnd ==
    /\ pc = "start"
    /\ disk = [p \in {MountDir} |-> Node(S_IFDIR, TRUE, {})]
    /\ cache = [exists |-> FALSE, entries |-> <<>>]
    /\ mountpoint = NULL /\ valid = FALSE /\ mounts = NoOutcome
    /\ poll = NoPoll /\ sentinelAt = NotYet /\ home = NoHome /\ ui = NoUi
    /\ codecIdle /\ tmplIdle /\ busIdle

\* systemd_unit_set_active(unit_name, true), then after the checks
\* systemd_unit_set_active(unit_name, false)
TestSetActive(active) ==
    /\ pc = (IF active THEN "start" ELSE "checked")
    /\ ctl.proc = "running"
    /\ LET done == systemd_unit_set_active(fault, units, TestUnit, active)
       IN  ctl' = done.ctl /\ units' = done.units
    /\ pc' = (IF active THEN "started" ELSE "stopped")
    /\ UNCHANGED <<fault, busFrame>>

\* systemd_unit_is_active(unit_name) after the wait, and after the stop
TestIsActive ==
    /\ pc \in {"polled", "stopped"}
    /\ ctl.proc = "running"
    /\ ctl' = systemd_unit_is_active(fault, units, TestUnit)
    /\ pc' = (IF pc = "polled" THEN "checked" ELSE "end")
    /\ UNCHANGED <<fault, units, busFrame>>

\* the manager runs the job queued for the unit
ManagerRuns ==
    /\ units[TestUnit].job # "none"
    /\ units' = JobStep(units, TestUnit)
    /\ UNCHANGED <<pc, fault, ctl, busFrame>>

\* the running service has mounted the file system
ServiceMount ==
    /\ units[TestUnit].ActiveState = "active"
    /\ XDG_VOLUME_INFO \notin disk[MountDir].entries
    /\ disk' = [disk EXCEPT ![MountDir].entries = @ \cup {XDG_VOLUME_INFO}]
    /\ sentinelAt' = [polls |-> poll.polls, sleeps |-> poll.sleeps]
    /\ UNCHANGED <<pc, poll, codecVars, tmplVars, cache, mountpoint, valid, mounts,
                   busVars, home, ui>>

\* the stopping service unmounts it
ServiceUnmount ==
    /\ units[TestUnit].ActiveState \in {"deactivating", "inactive"}
    /\ XDG_VOLUME_INFO \in disk[MountDir].entries
    /\ disk' = [disk EXCEPT ![MountDir].entries = @ \ {XDG_VOLUME_INFO}]
    /\ UNCHANGED <<pc, poll, pollFrame>>

NextEndToEnd ==
    \/ \E active \in BOOLEAN : TestSetActive(active)
    \/ \E timeout \in 1..MaxTimeout :
          pc = "started" /\ Returned(TRUE) /\ PollCall(timeout)
    \/ PollIteration
    \/ PollSleep
    \/ TestIsActive
    \/ ManagerRuns
    \/ ServiceMount
    \/ ServiceUnmount

SpecEndToEnd == InitEndToEnd /\ [][NextEndToEnd]_vars

\* the service created the sentinel within the timeout: before the last
\* sleep of fs_poll_until_avail was over
SentinelInTime == sentinelAt.sleeps >= 0 /\ sentinelAt.sleeps < PollLimit

\* C15: after set_active(u, true) has returned true and fs_poll_until_avail(D,
\* t) has returned, if the service created the sentinel within t seconds then
\* the sentinel has been observed and is_active(u) returns true; after the
\* following set_active(u, false) has returned true, is_active(u) returns
\* false.
C15_EndToEnd ==
    /\ (pc \in {"polled", "checked"} /\ SentinelInTime) => poll.found
    /\ (pc = "checked" /\ SentinelInTime) => Returned(TRUE)
    /\ pc = "end" => Returned(FALSE)

\* what the poller does give: a sentinel created before the last poll is
\* observed, and the unit is then reported active
C15_ObservedBeforeLastPoll ==
    (pc = "checked" /\ sentinelAt.polls >= 0 /\ sentinelAt.polls < poll.polls) =>
        (poll.found /\ Returned(TRUE))


---------------------------------------------------------------------------
(* onedriver.c: escape_home, unescape_home *)

TILDE == 126

\* strncmp(path, homedir, len) == 0: the first len bytes of path are homedir;
\* then strdup(path + len - 1) with its first byte replaced by '~'
escape_home(homedir, p) ==
    LET len == strlen(homedir) IN
    IF Len(p) >= len /\ SubSeq(p, 1, len) = homedir
    THEN <<TILDE>> \o SubSeq(p, len + 1, Len(p))
    ELSE p

\* malloc(strlen(path) - 1 + len), then homedir, path + 1 and the terminator
\* are copied into it
unescape_home(homedir, p) ==
    IF At(p, 1) = SLASH THEN {Outcome(0, p, "ok")}
    ELSE LET len == strlen(homedir) IN
         {Outcome(0, homedir \o SubSeq(p, 2, Len(p)), m) :
             m \in HeapWrite(strlen(p) - 1 + len, len + (strlen(p) - 1) + 1)}

\* g_get_home_dir(): "/h", "/h/a"
HomeDirs == { <<SLASH, 104>>, <<SLASH, 104, SLASH, 97>> }

\* "/opt/test" and "~/test" of main_test.c
HomeTestPaths ==
    { <<47, 111, 112, 116, 47, 116, 101, 115, 116>>, <<126, 47, 116, 101, 115, 116>> }

\* paths over '/', 'h', 'a', '~', and homedir + "/test"
HomeInputs ==
    (Strings({SLASH, 104, 97, TILDE}, MaxPathLen) \ {<<>>})
        \cup HomeTestPaths
        \cup {h \o <<47, 116, 101, 115, 116>> : h \in HomeDirs}

homeFrame == <<path2, instance, instance2, unescaped, decoded, reescaped, tmplVars, fsVars,
               busVars, poll, sentinelAt, ui>>

InitHome ==
    /\ pc = "start"
    /\ path \in HomeInputs
    /\ path2 = <<>> /\ instance = <<>> /\ instance2 = <<>>
    /\ unescaped = NULL /\ decoded = NoOutcome /\ reescaped = NoOutcome
    /\ tmplIdle /\ fsIdle /\ busIdle /\ poll = NoPoll /\ sentinelAt = NotYet /\ ui = NoUi
    /\ \E homedir \in HomeDirs : home = [NoHome EXCEPT !.homedir = homedir]

EscapeHome ==
    /\ pc = "start"
    /\ home' = [home EXCEPT !.replaced = escape_home(home.homedir, path)]
    /\ pc' = "escape_home"
    /\ UNCHANGED <<path, homeFrame>>

\* unescape_home of what escape_home returned
UnescapeHome ==
    /\ pc = "escape_home"
    /\ \E new_path \in unescape_home(home.homedir, home.replaced) :
          home' = [home EXCEPT !.new_path = new_path]
    /\ pc' = "unescape_home"
    /\ UNCHANGED <<path, homeFrame>>

\* unescape_home of a path as it is
UnescapePath ==
    /\ pc = "start"
    /\ \E new_path \in unescape_home(home.homedir, path) :
          home' = [home EXCEPT !.new_path = new_path]
    /\ pc' = "unescape_path"
    /\ UNCHANGED <<path, homeFrame>>

NextHome == EscapeHome \/ UnescapeHome \/ UnescapePath

SpecHome == InitHome /\ [][NextHome]_vars

\* p is the home directory or a path below it
InsideHome(homedir, p) ==
    /\ Len(p) >= Len(homedir)
    /\ SubSeq(p, 1, Len(homedir)) = homedir
    /\ At(p, Len(homedir) + 1) \in {0, SLASH}

\* C18: escape_home(p) replaces the home-directory prefix by '~' only when p
\* lies inside the home directory and returns every other absolute path
\* unchanged; unescape_home returns paths starting with '/' unchanged and
\* expands a leading '~' to the home directory, so that
\* unescape_home(escape_home(p)) = p for every absolute path p.
C18_HomeEscape ==
    /\ (pc \in {"escape_home", "unescape_home"} /\ path[1] = SLASH) =>
           home.replaced =
               IF InsideHome(home.homedir, path)
               THEN <<TILDE>> \o SubSeq(path, Len(home.homedir) + 1, Len(path))
               ELSE path
    /\ pc = "unescape_path" =>
           /\ home.new_path.mem = "ok"
           /\ path[1] = SLASH => home.new_path.ret = path
           /\ path[1] = TILDE =>
                  home.new_path.ret = home.homedir \o SubSeq(path, 2, Len(path))
    /\ (pc = "unescape_home" /\ path[1] = SLASH) =>
           (home.new_path.mem = "ok" /\ home.new_path.ret = path)

\* what does hold: the round trip gives back the bytes of every absolute
\* path, when the write past the allocation left the heap intact
C18_RoundTripValue ==
    (pc = "unescape_home" /\ path[1] = SLASH) => home.new_path.ret = path

---------------------------------------------------------------------------
(* main.c: the launcher's window.  activate lists the known mounts and   *)
(* builds a row for each, activate_row_cb starts and opens a mount,      *)
(* delete_mount_cb removes one.  The bus answers every call here.        *)

\* "onedriver"
ONEDRIVER_NAME == <<111, 110, 101, 100, 114, 105, 118, 101, 114>>
\* "auth_tokens.json", "onedriver.db"
AUTH_TOKENS_JSON ==
    <<97, 117, 116, 104, 95, 116, 111, 107, 101, 110, 115, 46, 106, 115, 111, 110>>
ONEDRIVER_DB == <<111, 110, 101, 100, 114, 105, 118, 101, 114, 46, 100, 98>>
\* the files the service keeps in a cache subdirectory: the two above and
\* its content store, "content"
CacheFiles == {AUTH_TOKENS_JSON, ONEDRIVER_DB, <<99, 111, 110, 116, 101, 110, 116>>}

\* sprintf(path, "%s/onedriver/%s/", cachedir, instance), relative to cachedir
CachePath(inst) == ONEDRIVER_NAME \o <<SLASH>> \o inst

\* whether the process survives: g_error when auth_tokens.json cannot be loaded
fs_account_name(inst) ==
    LET fname == CachePath(inst) IN
    IF fname \in DOMAIN disk /\ AUTH_TOKENS_JSON \in disk[fname].entries
    THEN "running" ELSE "aborted"

\* the set of outcomes: the row built for mount, the return codes of the two
\* codec calls, and whether the process survives
new_mount_row(mount) ==
    LET escaped_path == systemd_path_escape(mount) IN
    { [row |-> Row(mount, unit_name.ret),
       rcs |-> <<escaped_path.rc, unit_name.rc>>,
       proc |-> IF unit_name.mem = "segv" THEN "segv"
                ELSE fs_account_name(escaped_path.ret)] :
        unit_name \in systemd_template_unit(ONEDRIVER_SERVICE_TEMPLATE, escaped_path.ret) }

\* the unit names of the mountpoints
LauncherUnits == { r.row.unit_name : r \in UNION {new_mount_row(m) : m \in MountPaths} }

InitLauncher ==
    /\ pc = "start"
    /\ cache \in [exists : {TRUE}, entries : [CacheNames -> {0, S_IFDIR}]]
    /\ disk = [p \in MountPaths \cup {CachePath(n) : n \in CacheNames} |->
                 IF p \in MountPaths THEN Node(S_IFDIR, TRUE, {})
                 ELSE IF \E n \in CacheNames : p = CachePath(n) /\ cache.entries[n] # 0
                      THEN Node(S_IFDIR, TRUE, {})
                      ELSE NoNode]
    /\ mountpoint = NULL /\ valid = FALSE /\ mounts = NoOutcome
    /\ fault = "none"
    /\ units \in [LauncherUnits -> {NoUnit, Unit(TRUE, "active", "none", "enabled")}]
    /\ ctl = NoCall
    /\ poll = NoPoll /\ sentinelAt = NotYet /\ home = NoHome /\ ui = NoUi
    /\ codecIdle /\ tmplIdle

\* the service of a mount writes file f into the mount's cache subdirectory
ServiceWrites(mount, f) ==
    /\ disk[CachePath(systemd_path_escape(mount).ret)].type = S_IFDIR
    /\ f \notin disk[CachePath(systemd_path_escape(mount).ret)].entries
    /\ disk' = [disk EXCEPT ![CachePath(systemd_path_escape(mount).ret)].entries =
                                @ \cup {f}]
    /\ pc' = IF pc = "start" THEN pc ELSE "service"
    /\ UNCHANGED <<codecVars, tmplVars, cache, mountpoint, valid, mounts, launcherVars>>

\* activate: fs_known_mounts, then new_mount_row for each mount found; the
\* last call of the last row built is systemd_unit_is_active
Activate ==
    /\ pc = "start"
    /\ pc' = "activate"
    /\ \E listing \in Listings(CacheEntries) :
       \E found \in fs_known_mounts(<<<<DOT>>, <<DOT, DOT>>>> \o listing) :
          /\ mounts' = found
          /\ IF found.mem = "segv"
             THEN ui' = [ui EXCEPT !.proc = "segv"] /\ ctl' = ctl
             ELSE LET built == UNION {new_mount_row(found.ret[i]) : i \in DOMAIN found.ret}
                      died == {r \in built : r.proc # "running"}
                  IN  IF died # {}
                      THEN /\ ui' = [ui EXCEPT !.proc = (CHOOSE r \in died : TRUE).proc]
                           /\ ctl' = ctl
                      ELSE /\ ui' = [ui EXCEPT !.rows = {r.row : r \in built}]
                           /\ ctl' = IF Len(found.ret) = 0 THEN ctl
                                     ELSE systemd_unit_is_active(fault, units,
                                              (CHOOSE r \in new_mount_row(found.ret[Len(found.ret)]) : TRUE).row.unit_name)
    /\ UNCHANGED <<codecVars, tmplVars, disk, cache, mountpoint, valid, fault, units,
                   poll, sentinelAt, home>>

\* the row's unit and cache subdirectory as a handler finds them
Was(row) ==
    [unit |-> units[row.unit_name],
     dir |-> disk[CachePath(systemd_path_escape(row.mount).ret)]]

\* activate_row_cb; fs_poll_until_avail(mount, 10) only waits, and the URI
\* is handed to the desktop
ActivateRow(row) ==
    /\ pc # "start" /\ ui.proc = "running" /\ row \in ui.rows
    /\ pc' = "activate_row"
    /\ LET escaped == systemd_path_escape(row.mount) IN
       \E unit_name \in systemd_template_unit(ONEDRIVER_SERVICE_TEMPLATE, escaped.ret) :
          LET q == systemd_unit_is_active(fault, units, unit_name.ret)
              s == systemd_unit_set_active(fault, units, unit_name.ret, TRUE)
              handler(requests) ==
                  [ui EXCEPT !.response = "none", !.row = row, !.was = Was(row),
                             !.requests = requests,
                             !.rcs = <<escaped.rc, unit_name.rc>>, !.mem = unit_name.mem]
          IN  IF q.r
              THEN /\ units' = units /\ ctl' = q
                   /\ ui' = handler(q.calls)
              ELSE /\ units' = s.units /\ ctl' = s.ctl
                   /\ ui' = handler(q.calls \o s.ctl.calls \o <<"fs_poll_until_avail">>)
    /\ UNCHANGED <<codecVars, tmplVars, fsVars, fault, poll, sentinelAt, home>>

\* delete_mount_cb with the dialog's response: remove() of the two named
\* files, then rmdir(), which removes a directory only when it is empty
DeleteMount(row, response) ==
    /\ pc # "start" /\ ui.proc = "running" /\ row \in ui.rows
    /\ pc' = "delete_mount"
    /\ IF response = "GTK_RESPONSE_ACCEPT"
       THEN LET e == systemd_unit_set_enabled(fault, units, row.unit_name, FALSE)
                a == systemd_unit_set_active(fault, e.units, row.unit_name, FALSE)
            IN  \E inst \in systemd_untemplate_unit(row.unit_name) :
                   LET dir == CachePath(inst.ret)
                       left == IF dir \in DOMAIN disk
                               THEN disk[dir].entries \ {AUTH_TOKENS_JSON, ONEDRIVER_DB}
                               ELSE {}
                       removed == /\ dir \in DOMAIN disk
                                  /\ disk[dir].type = S_IFDIR
                                  /\ left = {}
                   IN  /\ units' = a.units
                       /\ ctl' = a.ctl
                       /\ disk' = IF dir \notin DOMAIN disk THEN disk
                                  ELSE IF removed THEN [disk EXCEPT ![dir] = NoNode]
                                  ELSE [disk EXCEPT ![dir].entries = left]
                       /\ cache' = IF removed THEN [cache EXCEPT !.entries[inst.ret] = 0]
                                   ELSE cache
                       /\ ui' = [rows |-> ui.rows \ {row}, proc |-> "running",
                                 response |-> response, row |-> row, was |-> Was(row),
                                 requests |-> e.ctl.calls \o a.ctl.calls
                                              \o <<"remove", "remove", "rmdir">>,
                                 rcs |-> <<inst.rc>>, mem |-> inst.mem]
       ELSE /\ ui' = [ui EXCEPT !.response = response, !.row = row, !.was = Was(row),
                                !.requests = <<>>, !.rcs = <<>>, !.mem = "ok"]
            /\ UNCHANGED <<units, ctl, disk, cache>>
    /\ UNCHANGED <<codecVars, tmplVars, mountpoint, valid, mounts, fault,
                   poll, sentinelAt, home>>

NextLauncher ==
    \/ \E mount \in MountPaths, f \in CacheFiles : ServiceWrites(mount, f)
    \/ Activate
    \/ \E row \in ui.rows : ActivateRow(row)
    \/ \E row \in ui.rows, response \in {"GTK_RESPONSE_ACCEPT", "GTK_RESPONSE_REJECT"} :
          DeleteMount(row, response)

SpecLauncher == InitLauncher /\ [][NextLauncher]_vars

\* the mountpoints fs_known_mounts may return now, over every readdir order
KnownNow ==
    UNION { Range(found.ret) :
              found \in UNION { fs_known_mounts(<<<<DOT>>, <<DOT, DOT>>>> \o listing) :
                                  listing \in Listings(CacheEntries) } }

\* the cache subdirectory of the row's instance is gone, and with it the
\* row's mountpoint from the known mounts
CacheDirGone(row) ==
    /\ disk[CachePath(systemd_path_escape(row.mount).ret)] = NoNode
    /\ cache.entries[systemd_path_escape(row.mount).ret] = 0
    /\ row.mount \notin KnownNow

\* C19: delete_mount_cb, once the user confirms, first requests disable and
\* stop of the unit and then removes the cache subdirectory of the instance
\* with every file inside it, so that afterwards the directory no longer
\* exists and fs_known_mounts no longer returns the mountpoint; when the user
\* cancels, neither the unit nor the cache directory is changed.
C19_DeleteMount ==
    pc = "delete_mount" =>
        IF ui.response = "GTK_RESPONSE_ACCEPT"
        THEN /\ ui.requests =
                   <<"DisableUnitFiles", "StopUnit", "remove", "remove", "rmdir">>
             /\ CacheDirGone(ui.row)
        ELSE Was(ui.row) = ui.was

\* what does hold: the requests and their order, the two named files are
\* gone, a cache subdirectory that held nothing else is gone, and a cancel
\* changes nothing
C19_RemovesNamedFiles ==
    pc = "delete_mount" =>
        IF ui.response = "GTK_RESPONSE_ACCEPT"
        THEN /\ ui.requests =
                   <<"DisableUnitFiles", "StopUnit", "remove", "remove", "rmdir">>
             /\ Was(ui.row).dir.entries \cap {AUTH_TOKENS_JSON, ONEDRIVER_DB} = {}
             /\ ui.was.dir.entries \subseteq {AUTH_TOKENS_JSON, ONEDRIVER_DB}
                    => CacheDirGone(ui.row)
        ELSE Was(ui.row) = ui.was

\* the directories of the cache root that fs_known_mounts decodes and whose
\* name is cut short or carries a bad escape
FailedDecodes ==
    {n \in CacheEntries : cache.entries[n] = S_IFDIR /\ n[1] # DOT /\ MalformedEscape(n)}

\* C20: a failing codec call is observed by its caller and its result is not
\* used: fs_known_mounts does not dereference the failed decode of a
\* malformed cache-directory name, and no controller call or cache-file
\* removal is issued with a name that comes from a failed codec call.
C20_CodecFailuresObserved ==
    /\ (pc = "activate" /\ FailedDecodes # {}) => mounts.mem # "segv"
    /\ (pc \in {"activate_row", "delete_mount"} /\ ui.requests # <<>>) =>
           \A i \in DOMAIN ui.rcs : ui.rcs[i] = 0

\* what does hold: the launcher's handlers issue their requests with names
\* from codec calls that returned 0
C20_HandlersUseSucceededCalls ==
    (pc \in {"activate_row", "delete_mount"} /\ ui.requests # <<>>) =>
        \A i \in DOMAIN ui.rcs : ui.rcs[i] = 0

---------------------------------------------------------------------------
(* fs_known_mounts on a cache root with many mounts: the result array *)

\* the largest number of mounts in the cache root
MaxMounts == 11

\* one-letter directory names "a", "b", ... and the mountpoints "/a", "/b", ...
ManyNames == { <<96 + k>> : k \in 1..MaxMounts }

\* readdir returning the names of S in ascending order
RECURSIVE Ascending(_)
Ascending(S) ==
    IF S = {} THEN <<>>
    ELSE LET least == CHOOSE n \in S : \A m \in S : n[1] <= m[1]
         IN  <<least>> \o Ascending(S \ {least})

InitMany ==
    /\ launcherIdle
    /\ pc = "start"
    /\ disk = [p \in {<<SLASH>> \o n : n \in ManyNames} |-> Node(S_IFDIR, TRUE, {})]
    /\ cache \in [exists : {TRUE}, entries : [ManyNames -> {0, S_IFDIR}]]
    /\ mountpoint = NULL /\ valid = FALSE /\ mounts = NoOutcome
    /\ codecIdle /\ tmplIdle

KnownMountsMany ==
    /\ pc = "start"
    /\ mounts' \in fs_known_mounts(<<<<DOT>>, <<DOT, DOT>>>>
                      \o Ascending({n \in ManyNames : cache.entries[n] # 0}))
    /\ pc' = "known_mounts"
    /\ UNCHANGED <<codecVars, tmplVars, disk, cache, mountpoint, valid, launcherVars>>

NextMany == KnownMountsMany

SpecMany == InitMany /\ [][NextMany]_vars

\* the accepted mountpoints in the order of discovery
Discovered == [k \in 1..Cardinality({n \in ManyNames : cache.entries[n] # 0}) |->
                 <<SLASH>> \o Ascending({n \in ManyNames : cache.entries[n] # 0})[k]]

\* C21: for every number n of accepted mountpoints, every write into the
\* result array of fs_known_mounts, the n paths and the final NULL, is at an
\* index below the array's capacity (10 at first, doubled on growth), and the
\* returned array holds the n paths in discovery order.
C21_ArrayCapacity ==
    pc = "known_mounts" => (mounts.mem = "ok" /\ mounts.ret = Discovered)

\* what does hold: with fewer than INITIAL_SIZE mounts every write is inside
\* the array, and the paths written are the discovered ones in every case
C21_BelowInitialSize ==
    pc = "known_mounts" =>
        /\ mounts.ret = Discovered
        /\ Len(mounts.ret) < INITIAL_SIZE => mounts.mem = "ok"

---------------------------------------------------------------------------
(* The codec's output buffers: each function applied to one input text *)

\* the longest input text
MaxBufLen == 3

\* malloc(strlen(str) * 4 + 1) of systemd_escape, strdup(f) of systemd_unescape
escape_alloc(str) == (strlen(str) * 4) + 1
unescape_alloc(f) == strlen(f) + 1

\* '/', '-', '.', '@', '\', 'x', '4' and the byte 0xC8
BufChars == {SLASH, DASH, DOT, AT_SIGN, BACKSLASH, LOWER_X, 52, 200}
BufInputs == Strings(BufChars, MaxBufLen) \cup TestInstances \cup {TestInstance}

InitBuffers ==
    /\ launcherIdle
    /\ pc = "start"
    /\ path \in BufInputs
    /\ path2 = <<>> /\ instance = <<>> /\ instance2 = <<>>
    /\ unescaped = NULL /\ decoded = NoOutcome /\ reescaped = NoOutcome
    /\ tmplIdle
    /\ fsIdle

BufEscape ==
    /\ pc = "start"
    /\ instance' = systemd_escape(path)
    /\ pc' = "escape"
    /\ UNCHANGED <<path, path2, instance2, unescaped, decoded, reescaped, tmplVars,
                   fsVars, launcherVars>>

BufUnescape ==
    /\ pc = "start"
    /\ unescaped' = systemd_unescape(path)
    /\ pc' = "unescape"
    /\ UNCHANGED <<path, path2, instance, instance2, decoded, reescaped, tmplVars,
                   fsVars, launcherVars>>

BufPathUnescape ==
    /\ pc = "start"
    /\ decoded' \in systemd_path_unescape(path)
    /\ pc' = "path_unescape"
    /\ UNCHANGED <<path, path2, instance, instance2, unescaped, reescaped, tmplVars,
                   fsVars, launcherVars>>

\* the text as the instance of the service template
BufTemplateUnit ==
    /\ pc = "start"
    /\ template' = ONEDRIVER_SERVICE_TEMPLATE
    /\ unit' \in systemd_template_unit(ONEDRIVER_SERVICE_TEMPLATE, path)
    /\ pc' = "template_unit"
    /\ UNCHANGED <<codecVars, untemplated, fsVars, launcherVars>>

\* the text as a unit name
BufUntemplateUnit ==
    /\ pc = "start"
    /\ untemplated' \in systemd_untemplate_unit(path)
    /\ pc' = "untemplate_unit"
    /\ UNCHANGED <<codecVars, template, unit, fsVars, launcherVars>>

NextBuffers ==
    \/ BufEscape
    \/ BufUnescape
    \/ BufPathUnescape
    \/ BufTemplateUnit
    \/ BufUntemplateUnit

SpecBuffers == InitBuffers /\ [][NextBuffers]_vars

\* C22: every output buffer the codec allocates holds all the bytes written
\* into it, terminator included, for every input: systemd_escape,
\* systemd_unescape, systemd_path_unescape, systemd_template_unit and
\* systemd_untemplate_unit, whose instance length is never negative.
C22_BuffersFit ==
    /\ pc = "escape" => Len(instance) + 1 <= escape_alloc(path)
    /\ (pc = "unescape" /\ ~unescaped.null) =>
           Len(unescaped.buf) + 1 <= unescape_alloc(path)
    /\ pc = "path_unescape" => decoded.mem = "ok"
    /\ pc = "template_unit" => unit.mem = "ok"
    /\ pc = "untemplate_unit" => untemplated.mem = "ok"

\* what does hold: the buffers of systemd_escape, systemd_unescape and
\* systemd_template_unit hold what is written into them
C22_EscapeAndTemplateFit ==
    /\ pc = "escape" => Len(instance) + 1 <= escape_alloc(path)
    /\ (pc = "unescape" /\ ~unescaped.null) =>
           Len(unescaped.buf) + 1 <= unescape_alloc(path)
    /\ pc = "template_unit" => unit.mem = "ok"


===========================================================================
